---- MODULE Spec2Model ----
(***************************************************************************)
(* A model of the OWID signing substrate of SWAN-community/owid-go: the    *)
(* Signer with its key history, signing and verification of OWIDs, the     *)
(* in-memory test store and the on-disk Local store with its signers       *)
(* cache.                                                                  *)
(*                                                                         *)
(* Conventions.  An instant (time.Time) is an integer number of minutes    *)
(* since the epoch common.IoDateBase (2020-01-01 UTC).  A string is a      *)
(* sequence of byte values.  A Go error is a string, "" meaning nil.  A    *)
(* pointer to a Signer is an object id into heap, 0 meaning nil; a Go map  *)
(* is an object of mapHeap.  A Keys value is identified by the id of its   *)
(* key pair; the lazily built crypto handles it memoises are not state.    *)
(***************************************************************************)
EXTENDS Integers, Sequences, FiniteSets, TLC

VARIABLES
    heap,       \* Signer objects: object id -> Signer
    mapHeap,    \* map[string]*Signer objects: map id -> (domain -> object id)
    signers,    \* storeBase.signers: the id of the published map
    nextObj,    \* number of Signer objects allocated so far
    nextKey,    \* number of key pairs generated so far
    now,        \* the wall clock, time.Now()
    owid,       \* the OWID a caller holds
    vres,       \* what the Verify call that has just returned gave the caller
    refreshed,  \* refresh() has returned since the last addSigner or addKeys
    buf,        \* the bytes.Buffer a caller holds
    file,       \* the content of the Local store's file
    th,         \* the goroutines working on the Local store
    form        \* the serialized form a caller holds, and the call that made it

vars == <<heap, mapHeap, signers, nextObj, nextKey, now, owid, vres,
          refreshed, buf, file, th, form>>

(***************************************************************************)
(* Bounds of the model.                                                    *)
(***************************************************************************)
MaxKeys == 2
MaxObj == 2
TickStep == 40
MaxTime == 80
Skew == 30
MaxInputKeys == 3

(***************************************************************************)
(* Program constants.                                                      *)
(***************************************************************************)
owidEmpty == 0
owidVersion1 == 1
\* The OWID versions that are supported.
owidVersions == {owidVersion1}
signatureLength == 64
IoDateBase == 0
\* The zero time.Time (0001-01-01 UTC) in minutes since IoDateBase: the
\* TimeStamp of an OWID built as &OWID{Target: m}.
ZeroTime == -1061890560
\* The verification tolerance: one hour.
Tolerance == 60

\* Domains, as byte strings.  The domain registered with a store is "a"; a
\* caller presents an OWID under "a", under "A" ("a" in another case) or
\* under "b".
Domains == {<<97>>}
OwidDomains == {<<97>>, <<65>>, <<98>>}
Registrations == {[name |-> "N1", termsURL |-> "U1"],
                  [name |-> "N2", termsURL |-> "U2"]}
Targets == {<<>>, <<7>>}

\* A nil []byte, as distinct from an empty one.
NilSlice == <<256>>

(***************************************************************************)
(* Strings.                                                                *)
(***************************************************************************)
\* unicode.ToLower on the ASCII letters.
ToLower(c) == IF c >= 65 /\ c <= 90 THEN c + 32 ELSE c

\* strings.EqualFold.
EqualFold(s, t) ==
    /\ Len(s) = Len(t)
    /\ \A i \in 1..Len(s) : ToLower(s[i]) = ToLower(t[i])

(***************************************************************************)
(* Crypto: an ideal signature scheme.  A key pair is named by its id; the  *)
(* signature of data d under key pair k is a fixed 64 byte sequence that   *)
(* no other pair (k, d) produces, and only that sequence verifies.         *)
(***************************************************************************)
RECURSIVE Zeros(_)
Zeros(n) == IF n <= 0 THEN <<>> ELSE <<0>> \o Zeros(n - 1)

PrivateKeyOf(k) == [pem |-> "private", id |-> k]
PublicKeyOf(k) == [pem |-> "public", id |-> k]

\* NewCryptoSignOnly(private string): a handle with the private key only.
NewCryptoSignOnly(private) ==
    IF private.pem = "private"
    THEN [c |-> [privateKey |-> private.id, publicKey |-> 0], err |-> ""]
    ELSE [c |-> [privateKey |-> 0, publicKey |-> 0], err |-> "private key invalid"]

\* NewCryptoVerifyOnly(public string): a handle with the public key only.
NewCryptoVerifyOnly(public) ==
    IF public.pem = "public"
    THEN [c |-> [privateKey |-> 0, publicKey |-> public.id], err |-> ""]
    ELSE [c |-> [privateKey |-> 0, publicKey |-> 0], err |-> "public key invalid"]

\* The 64 bytes r || s for key pair k and data d: both halves depend on the
\* key pair and on the data, so that no two signatures differ in one byte only.
SignatureBytes(k, d) ==
    LET body == <<k, Len(d)>> \o d
        half == body \o Zeros((signatureLength \div 2) - Len(body))
    IN half \o half

\* Crypto.SignByteArray.
SignByteArray(c, d) ==
    IF c.privateKey = 0
    THEN [sig |-> NilSlice, err |-> "crypto can not sign"]
    ELSE [sig |-> SignatureBytes(c.privateKey, d), err |-> ""]

\* Crypto.VerifyByteArray.
VerifyByteArray(c, d, sig) ==
    IF c.publicKey = 0
    THEN [ok |-> FALSE, err |-> "crypto can not verify"]
    ELSE IF sig = NilSlice \/ Len(sig) # signatureLength
    THEN [ok |-> FALSE, err |-> "signature length invalid"]
    ELSE [ok |-> sig = SignatureBytes(c.publicKey, d), err |-> ""]

(***************************************************************************)
(* OWID.                                                                   *)
(***************************************************************************)
\* Marshaler.MarshalOwid of a ByteArray target: its data.
MarshalOwid(target) == [d |-> target, err |-> ""]

\* &OWID{Target: m}
EmptyOwid(target) ==
    [Version |-> 0, Domain |-> <<>>, TimeStamp |-> ZeroTime,
     Signature |-> NilSlice, Target |-> target]

\* NewUnsignedOwid
NewUnsignedOwid(domain, date, target) ==
    [Version |-> owidVersion1, Domain |-> domain, TimeStamp |-> date,
     Signature |-> NilSlice, Target |-> target]

\* OWID.Validate ignoring the version.
ValidateAnyVersion(o) ==
    IF o.Signature = NilSlice THEN "signature missing"
    ELSE IF o.Domain = <<>> THEN "domain missing"
    ELSE IF o.TimeStamp < IoDateBase THEN "date older than base date"
    ELSE ""

\* OWID.Validate: the error, "" for nil.  It assigns nothing.
Validate(o) ==
    IF o.Signature = NilSlice THEN "signature missing"
    ELSE IF o.Domain = <<>> THEN "domain missing"
    ELSE IF o.TimeStamp < IoDateBase THEN "date older than base date"
    ELSE IF o.Version \notin owidVersions THEN "version invalid"
    ELSE ""

\* OWID.getTimeStampWithTolerance
getTimeStampWithTolerance(o) == o.TimeStamp + Tolerance

\* OWID.Sign(crypto): the OWID afterwards and the error returned.
OwidSign(o, c) ==
    LET m == MarshalOwid(o.Target)
        s == SignByteArray(c, m.d)
    IN IF m.err # "" THEN [o |-> o, err |-> m.err]
       ELSE [o |-> [o EXCEPT !.Signature = s.sig], err |-> s.err]

\* OWID.VerifyWithCrypto(crypto)
VerifyWithCrypto(o, c) ==
    LET m == MarshalOwid(o.Target)
    IN IF m.err # "" THEN [ok |-> FALSE, err |-> m.err]
       ELSE VerifyByteArray(c, m.d, o.Signature)

\* OWID.VerifyWithPublicKey(public)
VerifyWithPublicKey(o, public) ==
    LET c == NewCryptoVerifyOnly(public)
    IN IF c.err # "" THEN [ok |-> FALSE, err |-> c.err]
       ELSE VerifyWithCrypto(o, c.c)

(***************************************************************************)
(* Keys and Signer.                                                        *)
(***************************************************************************)
\* newKeys(): a fresh key pair created now.
newKeys(k, t) ==
    [PrivateKey |-> PrivateKeyOf(k), PublicKey |-> PublicKeyOf(k), Created |-> t]

\* newSigner leaving the name out.
newSignerUnnamed(domain, name, termsURL, keys) ==
    [Domain |-> domain, Name |-> <<>>, TermsURL |-> termsURL,
     Keys |-> <<keys>>, current |-> 0]

\* newSigner: the parameters are validated by the callers modelled here.
newSigner(domain, name, termsURL, keys) ==
    [Domain |-> domain, Name |-> name, TermsURL |-> termsURL,
     Keys |-> <<keys>>, current |-> 0]

\* The key pair ids of a sequence of Keys.
KeyIds(keys) == {keys[i].PrivateKey.id : i \in 1..Len(keys)}

\* The Keys of signer s with key pair id k.
KeysById(s, k) ==
    LET i == CHOOSE j \in 1..Len(s.Keys) : s.Keys[j].PrivateKey.id = k
    IN s.Keys[i]

RECURSIVE currentScan(_, _, _)
\* The loop of Signer.currentKeys: c is the index of the candidate, 0 for nil.
currentScan(keys, i, c) ==
    IF i > Len(keys) THEN c
    ELSE IF c = 0 \/ keys[c].Created < keys[i].Created
    THEN currentScan(keys, i + 1, i)
    ELSE currentScan(keys, i + 1, c)

\* Signer.currentKeys: the signer afterwards (current is cached), the key
\* pair id found and the error.
currentKeys(s) ==
    IF s.current = 0
    THEN LET c == currentScan(s.Keys, 1, 0)
             k == IF c = 0 THEN 0 ELSE s.Keys[c].PrivateKey.id
         IN [s |-> [s EXCEPT !.current = k], k |-> k,
             err |-> IF c = 0 THEN "signer contains no keys" ELSE ""]
    ELSE [s |-> s, k |-> s.current, err |-> ""]

\* verifyDomains comparing the domains byte for byte.
verifyDomainsExact(s, o) ==
    IF s # o.Domain THEN "can't use signer with OWID" ELSE ""

\* verifyDomains
verifyDomains(s, o) ==
    IF ~EqualFold(s, o.Domain) THEN "can't use signer with OWID" ELSE ""

RECURSIVE verifyLoopAnyKey(_, _, _, _)
\* The loop of Signer.Verify trying every key, whatever its created time.
verifyLoopAnyKey(keys, o, i, tried) ==
    IF i = 0 THEN [ok |-> FALSE, err |-> "", tried |-> tried]
    ELSE LET k == keys[i]
             p == NewCryptoVerifyOnly(k.PublicKey)
             r == VerifyWithCrypto(o, p.c)
             t == Append(tried, k.PublicKey.id)
         IN IF p.err # "" THEN [ok |-> FALSE, err |-> p.err, tried |-> tried]
            ELSE IF r.err # "" THEN [ok |-> FALSE, err |-> r.err, tried |-> t]
            ELSE IF r.ok THEN [ok |-> TRUE, err |-> "", tried |-> t]
            ELSE verifyLoopAnyKey(keys, o, i - 1, t)

RECURSIVE verifyLoopPastErrors(_, _, _, _)
\* The loop of Signer.Verify going on to the next key after an error.
verifyLoopPastErrors(keys, o, i, tried) ==
    IF i = 0 THEN [ok |-> FALSE, err |-> "", tried |-> tried]
    ELSE LET k == keys[i] IN
         IF ~(k.Created > getTimeStampWithTolerance(o))
         THEN LET p == NewCryptoVerifyOnly(k.PublicKey)
                  r == VerifyWithCrypto(o, p.c)
                  t == Append(tried, k.PublicKey.id)
              IN IF p.err = "" /\ r.err = "" /\ r.ok
                 THEN [ok |-> TRUE, err |-> "", tried |-> t]
                 ELSE verifyLoopPastErrors(keys, o, i - 1, t)
         ELSE verifyLoopPastErrors(keys, o, i - 1, tried)

RECURSIVE verifyLoop(_, _, _, _)
\* The loop of Signer.Verify over s.Keys[i-1], from the last index down;
\* tried lists the key pair ids whose check ran, in order.
verifyLoop(keys, o, i, tried) ==
    IF i = 0 THEN [ok |-> FALSE, err |-> "", tried |-> tried]
    ELSE LET k == keys[i] IN
         IF ~(k.Created > getTimeStampWithTolerance(o))
         THEN LET p == NewCryptoVerifyOnly(k.PublicKey)
                  r == VerifyWithCrypto(o, p.c)
                  t == Append(tried, k.PublicKey.id)
              IN IF p.err # "" THEN [ok |-> FALSE, err |-> p.err, tried |-> tried]
                 ELSE IF r.err # "" THEN [ok |-> FALSE, err |-> r.err, tried |-> t]
                 ELSE IF r.ok THEN [ok |-> TRUE, err |-> "", tried |-> t]
                 ELSE verifyLoop(keys, o, i - 1, t)
         ELSE verifyLoop(keys, o, i - 1, tried)

\* Signer.Verify
SignerVerify(s, o) ==
    LET e == verifyDomains(s.Domain, o)
    IN IF e # "" THEN [ok |-> FALSE, err |-> e, tried |-> <<>>]
       ELSE verifyLoop(s.Keys, o, Len(s.Keys), <<>>)

\* Signer.PublicKeys filling p from its last index.
PublicKeysReversed(s) ==
    [i \in 1..Len(s.Keys) |->
        [Key |-> s.Keys[Len(s.Keys) + 1 - i].PublicKey,
         Created |-> s.Keys[Len(s.Keys) + 1 - i].Created]]

\* Signer.PublicKeys
PublicKeys(s) ==
    [i \in 1..Len(s.Keys) |-> [Key |-> s.Keys[i].PublicKey, Created |-> s.Keys[i].Created]]

\* Signer.PublicSigner
PublicSigner(s) ==
    [Domain |-> s.Domain, Name |-> s.Name, TermsURL |-> s.TermsURL,
     PublicKeys |-> PublicKeys(s)]

RECURSIVE verifyLoopPublicNoTolerance(_, _, _, _)
\* The loop of SignerPublic.Verify comparing with the timestamp itself.
verifyLoopPublicNoTolerance(keys, o, i, tried) ==
    IF i = 0 THEN [ok |-> FALSE, err |-> "", tried |-> tried]
    ELSE LET k == keys[i] IN
         IF ~(k.Created > o.TimeStamp)
         THEN LET r == VerifyWithPublicKey(o, k.Key)
                  t == Append(tried, k.Key.id)
              IN IF r.err # "" THEN [ok |-> FALSE, err |-> r.err, tried |-> t]
                 ELSE IF r.ok THEN [ok |-> TRUE, err |-> "", tried |-> t]
                 ELSE verifyLoopPublicNoTolerance(keys, o, i - 1, t)
         ELSE verifyLoopPublicNoTolerance(keys, o, i - 1, tried)

RECURSIVE verifyLoopPublic(_, _, _, _)
\* The loop of SignerPublic.Verify over s.PublicKeys[i-1], from the last index
\* down.
verifyLoopPublic(keys, o, i, tried) ==
    IF i = 0 THEN [ok |-> FALSE, err |-> "", tried |-> tried]
    ELSE LET k == keys[i] IN
         IF ~(k.Created > getTimeStampWithTolerance(o))
         THEN LET r == VerifyWithPublicKey(o, k.Key)
                  t == Append(tried, k.Key.id)
              IN IF r.err # "" THEN [ok |-> FALSE, err |-> r.err, tried |-> t]
                 ELSE IF r.ok THEN [ok |-> TRUE, err |-> "", tried |-> t]
                 ELSE verifyLoopPublic(keys, o, i - 1, t)
         ELSE verifyLoopPublic(keys, o, i - 1, tried)

\* SignerPublic.Verify
SignerPublicVerify(s, o) ==
    LET e == verifyDomains(s.Domain, o)
    IN IF e # "" THEN [ok |-> FALSE, err |-> e, tried |-> <<>>]
       ELSE verifyLoopPublic(s.PublicKeys, o, Len(s.PublicKeys), <<>>)

\* Signer.Sign(owid): the signer afterwards, the OWID afterwards, the error.
SignerSign(s, o) ==
    LET ck == currentKeys(s)
        c == IF ck.err # "" THEN [c |-> [privateKey |-> 0, publicKey |-> 0], err |-> ck.err]
             ELSE NewCryptoSignOnly(KeysById(s, ck.k).PrivateKey)
        o1 == [o EXCEPT !.Version = owidVersion1, !.Domain = s.Domain]
        r == OwidSign(o1, c.c)
    IN IF c.err # "" THEN [s |-> ck.s, o |-> o, err |-> c.err]
       ELSE [s |-> ck.s, o |-> r.o, err |-> r.err]

\* Signer.CreateOWIDandSign(m)
CreateOWIDandSign(s, m) == SignerSign(s, EmptyOwid(m))

(***************************************************************************)
(* The store: storeBase and the in-memory storeTest.                       *)
(***************************************************************************)
\* A Go map lookup: nil when the key is absent.
MapGet(m, d) == IF d \in DOMAIN m THEN m[d] ELSE 0

\* storeBase.getSigner
getSigner(d) == MapGet(mapHeap[signers], d)

\* The caller holds no OWID, has verified nothing.
NoOwid == [Version |-> 0, Domain |-> <<>>, TimeStamp |-> ZeroTime,
           Signature |-> NilSlice, Target |-> <<>>,
           by |-> 0, at |-> 0, how |-> "none", nkeys |-> 0, fresh |-> FALSE,
           pos |-> 0]
NoResult == [sid |-> 0, ok |-> FALSE, err |-> "", tried |-> <<>>, domain |-> <<>>,
             via |-> "none"]

\* The Go fields of the OWID the caller holds.
Plain(o) ==
    [Version |-> o.Version, Domain |-> o.Domain, TimeStamp |-> o.TimeStamp,
     Signature |-> o.Signature, Target |-> o.Target]

\* The OWID o as the caller holds it, with the record of how it was made: by
\* signer object id, at the current time, when that signer had its present
\* keys and the store was or was not refreshed since its last change.
Held(o, id, how) ==
    [Version |-> o.Version, Domain |-> o.Domain, TimeStamp |-> o.TimeStamp,
     Signature |-> o.Signature, Target |-> o.Target,
     by |-> id, at |-> now, how |-> how, nkeys |-> Len(heap[id].Keys),
     fresh |-> refreshed, pos |-> 0]

\* Garbage collection: the objects of h reachable from the ids in roots.
Collect(h, roots) == [x \in (DOMAIN h \cap roots) |-> h[x]]

\* A caller's buffer before anything is written to it.
NoBuffer == [bytes |-> NilSlice, pos |-> 0]

\* The Go fields of no OWID.
NoPlain == [Version |-> 0, Domain |-> <<>>, TimeStamp |-> ZeroTime,
            Signature |-> NilSlice, Target |-> <<>>]

\* The caller has serialized nothing: of a call op, in the variant arg, o is
\* the OWID it was given, data the bytes or text and doc the JSON document it
\* was given or made, out the OWID it made or filled, rest the bytes it left
\* in the buffer and err its error; by is the signer object that signed o and
\* conv what the build makes of uint32(f) for a negative f.
NoForm == [op |-> "none", arg |-> "", conv |-> "", o |-> NoPlain, data |-> <<>>,
           doc |-> <<>>, out |-> NoPlain, rest |-> <<>>, err |-> "", by |-> 0]

\* The file of the Local store as createLocalStore makes it: no bytes.
EmptyFile == [kind |-> "empty", data |-> <<>>]

\* No goroutine works on the Local store, whose file is empty.
NoLocal ==
    /\ buf = NoBuffer
    /\ file = EmptyFile
    /\ th = <<>>
    /\ form = NoForm

\* newTestStore(): an empty map.
InitSigner ==
    /\ heap = <<>>
    /\ mapHeap = <<<<>>>>
    /\ signers = 1
    /\ nextObj = 0
    /\ nextKey = 0
    /\ now = 0
    /\ owid = NoOwid
    /\ vres = NoResult
    /\ refreshed = TRUE
    /\ NoLocal

Tick ==
    /\ now + TickStep <= MaxTime
    /\ now' = now + TickStep
    /\ vres' = NoResult
    /\ UNCHANGED <<form, heap, mapHeap, signers, nextObj, nextKey, owid,
                   refreshed, buf, file, th>>

\* storeTest.addSigner(s) of a signer made by newSigner with fresh keys.
TestAddSigner(d, reg) ==
    /\ nextObj < MaxObj
    /\ nextKey < MaxKeys
    /\ LET id == nextObj + 1
           s == newSigner(d, reg.name, reg.termsURL, newKeys(nextKey + 1, now))
           m == mapHeap[signers]
           m2 == [x \in DOMAIN m \cup {d} |-> IF x = d THEN id ELSE m[x]]
           h2 == [x \in (DOMAIN heap \cup {id}) |-> IF x = id THEN s ELSE heap[x]]
       IN /\ heap' = Collect(h2, {m2[x] : x \in DOMAIN m2})
          /\ mapHeap' = [mapHeap EXCEPT ![signers] = m2]
    /\ nextObj' = nextObj + 1
    /\ nextKey' = nextKey + 1
    /\ refreshed' = FALSE
    /\ vres' = NoResult
    /\ UNCHANGED <<form, signers, now, owid, buf, file, th>>

\* storeTest.addKeys(d, k) with k from newKeys().
TestAddKeys(d) ==
    /\ nextKey < MaxKeys
    /\ getSigner(d) # 0
    /\ LET id == getSigner(d)
           k == newKeys(nextKey + 1, now)
       IN heap' = [heap EXCEPT ![id].Keys = Append(@, k)]
    /\ nextKey' = nextKey + 1
    /\ refreshed' = FALSE
    /\ vres' = NoResult
    /\ UNCHANGED <<form, mapHeap, signers, nextObj, now, owid, buf, file, th>>

\* storeTest.refresh(): does nothing to the store.
TestRefresh ==
    /\ refreshed' = TRUE
    /\ vres' = NoResult
    /\ UNCHANGED <<form, heap, mapHeap, signers, nextObj, nextKey, now, owid,
                   buf, file, th>>

\* g, _ := store.GetSigner(d); o, err := g.CreateOWIDandSign(m)
DoCreateOWIDandSign(d, m) ==
    /\ getSigner(d) # 0
    /\ LET id == getSigner(d)
           r == CreateOWIDandSign(heap[id], m)
       IN /\ heap' = [heap EXCEPT ![id] = r.s]
          /\ owid' = IF r.err # "" THEN NoOwid ELSE Held(r.o, id, "create")
    /\ vres' = NoResult
    /\ buf' = NoBuffer
    /\ form' = NoForm
    /\ UNCHANGED <<mapHeap, signers, nextObj, nextKey, now, refreshed, file, th>>

\* The dates a caller gives an OWID it is about to sign: the time of its own
\* clock, which is the wall clock or runs behind it by Skew, never before
\* IoDateBase.
SignDates == {t \in {now, now - Skew} : t >= IoDateBase}

\* g, _ := store.GetSigner(d); o, _ := NewUnsignedOwid(g.Domain, date, m);
\* err := g.Sign(o)
DoSign(d, m, date) ==
    /\ getSigner(d) # 0
    /\ LET id == getSigner(d)
           r == SignerSign(heap[id], NewUnsignedOwid(heap[id].Domain, date, m))
       IN /\ heap' = [heap EXCEPT ![id] = r.s]
          /\ owid' = IF r.err # "" THEN NoOwid ELSE Held(r.o, id, "sign")
    /\ vres' = NoResult
    /\ buf' = NoBuffer
    /\ form' = NoForm
    /\ UNCHANGED <<mapHeap, signers, nextObj, nextKey, now, refreshed, file, th>>

\* The record of a Verify call of signer object id on the OWID presented
\* under domain od, returning r.
Verified(id, od, r, via) ==
    [sid |-> id, ok |-> r.ok, err |-> r.err, tried |-> r.tried, domain |-> od,
     via |-> via]

\* g, _ := store.GetSigner(d); v, err := g.Verify(o), for the OWID the
\* caller holds, possibly presented under another domain.
DoVerify(d, od) ==
    /\ owid.how # "none"
    /\ getSigner(d) # 0
    /\ LET id == getSigner(d)
           r == SignerVerify(heap[id], [Plain(owid) EXCEPT !.Domain = od])
       IN vres' = Verified(id, od, r, "signer")
    /\ UNCHANGED <<form, heap, mapHeap, signers, nextObj, nextKey, now, owid,
                   refreshed, buf, file, th>>

\* g, _ := store.GetSigner(d); v, err := g.PublicSigner().Verify(o)
DoVerifyPublic(d, od) ==
    /\ owid.how # "none"
    /\ getSigner(d) # 0
    /\ LET id == getSigner(d)
           r == SignerPublicVerify(PublicSigner(heap[id]),
                                   [Plain(owid) EXCEPT !.Domain = od])
       IN vres' = Verified(id, od, r, "public")
    /\ UNCHANGED <<form, heap, mapHeap, signers, nextObj, nextKey, now, owid,
                   refreshed, buf, file, th>>

\* g, _ := store.GetSigner(d); err := g.Sign(o), for the OWID the caller
\* holds, which was signed before.
DoSignAgain(d) ==
    /\ owid.how # "none"
    /\ getSigner(d) # 0
    /\ LET id == getSigner(d)
           r == SignerSign(heap[id], Plain(owid))
       IN /\ heap' = [heap EXCEPT ![id] = r.s]
          /\ owid' = IF r.err # "" THEN owid ELSE Held(r.o, id, "resign")
    /\ vres' = NoResult
    /\ buf' = NoBuffer
    /\ form' = NoForm
    /\ UNCHANGED <<mapHeap, signers, nextObj, nextKey, now, refreshed, file, th>>

NextSigner ==
    \/ Tick
    \/ \E d \in Domains, reg \in Registrations : TestAddSigner(d, reg)
    \/ \E d \in Domains : TestAddKeys(d)
    \/ TestRefresh
    \/ \E d \in Domains, m \in Targets : DoCreateOWIDandSign(d, m)
    \/ \E d \in Domains, m \in Targets, date \in SignDates : DoSign(d, m, date)
    \/ \E d \in Domains, od \in OwidDomains : DoVerify(d, od)
    \/ \E d \in Domains, od \in OwidDomains : DoVerifyPublic(d, od)

SpecSigner == InitSigner /\ [][NextSigner]_vars

(***************************************************************************)
(* The binary form of an OWID: the version byte, the domain and a null     *)
(* byte, the timestamp in minutes since IoDateBase as four bytes, little   *)
(* endian, and the 64 bytes of the signature.  A buffer being read is the  *)
(* sequence of the bytes not yet consumed.                                 *)
(***************************************************************************)
\* common.WriteByte
WriteByte(b, v) == Append(b, v)

\* common.WriteString: the bytes of the string, then a null terminator.
WriteString(b, str) == (b \o str) \o <<0>>

\* binary.LittleEndian.PutUint32
PutUint32(i) ==
    <<i % 256, (i \div 256) % 256, (i \div 65536) % 256, (i \div 16777216) % 256>>

\* What uint32(f) gives for a negative float64 f, which Go leaves to the
\* implementation: the low 32 bits of the integer part, or zero.
Conversions == {"wrap", "saturate"}

\* The least and the greatest time.Duration, in whole minutes.
MinDuration == -153722867
MaxDuration == 153722867

\* common.GetDateInMinutes, uint32(t.Sub(IoDateBase).Minutes()), as the four
\* bytes of the uint32: Sub saturates at the least and greatest Duration.
GetDateInMinutes(t, conv) ==
    LET d == IF t - IoDateBase < MinDuration THEN MinDuration
             ELSE IF t - IoDateBase > MaxDuration THEN MaxDuration
             ELSE t - IoDateBase
    IN IF d >= 0 \/ conv = "wrap" THEN PutUint32(d) ELSE <<0, 0, 0, 0>>

\* common.WriteDateToUInt32
WriteDateToUInt32(b, t, conv) == b \o GetDateInMinutes(t, conv)

\* writeSignature
writeSignature(b, v) ==
    IF v = NilSlice \/ Len(v) # signatureLength
    THEN [b |-> b, err |-> "provided signature length not compatible"]
    ELSE [b |-> b \o v, err |-> ""]

\* OWID.toBufferNoSignature
toBufferNoSignature(o, b, conv) ==
    WriteDateToUInt32(WriteString(WriteByte(b, o.Version), o.Domain), o.TimeStamp, conv)

\* OWID.ToBuffer on an empty buffer, as OWID.MarshalBinary calls it.
ToBuffer(o, conv) == writeSignature(toBufferNoSignature(o, <<>>, conv), o.Signature)

\* common.ReadByte
ReadByte(b) ==
    IF Len(b) < 1 THEN [v |-> 0, rest |-> <<>>, err |-> "bytes incorrect for Byte"]
    ELSE [v |-> b[1], rest |-> Tail(b), err |-> ""]

\* common.ReadString: the bytes before the first null byte.
ReadString(b) ==
    IF \E i \in 1..Len(b) : b[i] = 0
    THEN LET n == CHOOSE i \in 1..Len(b) : b[i] = 0 /\ \A j \in 1..(i - 1) : b[j] # 0
         IN [v |-> SubSeq(b, 1, n - 1), rest |-> SubSeq(b, n + 1, Len(b)), err |-> ""]
    ELSE [v |-> <<>>, rest |-> <<>>, err |-> "EOF"]

\* 2^64 nanoseconds, the period of the int64 a Duration is, in minutes:
\* PeriodHigh * 2^24 + PeriodLow + PeriodNum / PeriodDen.
PeriodHigh == 18
PeriodLow == 5455846
PeriodNum == 16459742
PeriodDen == 29296875

\* common.GetDateFromMinutes, IoDateBase.Add(time.Duration(i) * time.Minute),
\* for the uint32 i of the four bytes q: the product wraps around in the int64
\* of the Duration, so the instant is i minutes less k periods, for the k
\* that brings it between the least and the greatest Duration.  The instant
\* is given in whole minutes, rounded down.
GetDateFromMinutes(q) ==
    LET low == q[1] + 256 * q[2] + 65536 * q[3]
        less(k) == (q[4] - PeriodHigh * k) * 16777216 + low - PeriodLow * k
                   - ((k * PeriodNum + PeriodDen - 1) \div PeriodDen)
        fits(k) == /\ q[4] - PeriodHigh * k >= -11
                   /\ q[4] - PeriodHigh * k <= 14
                   /\ less(k) >= MinDuration - 1
                   /\ less(k) <= MaxDuration
    IN IoDateBase + less(CHOOSE k \in 0..14 : fits(k))

\* common.ReadDateFromUInt32
ReadDateFromUInt32(b) ==
    IF Len(b) < 4 THEN [v |-> ZeroTime, rest |-> <<>>, err |-> "bytes incorrect for Uint32"]
    ELSE [v |-> GetDateFromMinutes(SubSeq(b, 1, 4)),
          rest |-> SubSeq(b, 5, Len(b)), err |-> ""]

\* readSignature
readSignature(b) ==
    IF Len(b) < signatureLength
    THEN [v |-> NilSlice, rest |-> <<>>, err |-> "signature length not compatible"]
    ELSE [v |-> SubSeq(b, 1, signatureLength),
          rest |-> SubSeq(b, signatureLength + 1, Len(b)), err |-> ""]

\* fromBufferV1: the OWID afterwards, the bytes left in the buffer, the error.
fromBufferV1(b, o) ==
    LET d == ReadString(b)
        t == ReadDateFromUInt32(d.rest)
        g == readSignature(t.rest)
        o1 == [o EXCEPT !.Domain = d.v]
        o2 == [o1 EXCEPT !.TimeStamp = t.v]
        o3 == [o2 EXCEPT !.Signature = g.v]
    IN IF d.err # "" THEN [o |-> o1, rest |-> d.rest, err |-> d.err]
       ELSE IF t.err # "" THEN [o |-> o2, rest |-> t.rest, err |-> t.err]
       ELSE [o |-> o3, rest |-> g.rest, err |-> g.err]

\* OWID.FromBuffer reading every version that is not the empty marker as
\* version 1.
OwidFromBufferAnyVersion(o, b) ==
    LET v == ReadByte(b)
        o1 == [o EXCEPT !.Version = v.v]
    IN IF v.err # "" THEN [o |-> o1, rest |-> v.rest, err |-> v.err]
       ELSE IF v.v = owidEmpty THEN [o |-> o1, rest |-> v.rest, err |-> ""]
       ELSE fromBufferV1(v.rest, o1)

\* OWID.FromBuffer, the method: the OWID afterwards, the bytes left in the
\* buffer, the error.
OwidFromBuffer(o, b) ==
    LET v == ReadByte(b)
        o1 == [o EXCEPT !.Version = v.v]
    IN IF v.err # "" THEN [o |-> o1, rest |-> v.rest, err |-> v.err]
       ELSE IF v.v = owidEmpty THEN [o |-> o1, rest |-> v.rest, err |-> ""]
       ELSE IF v.v = owidVersion1 THEN fromBufferV1(v.rest, o1)
       ELSE [o |-> o1, rest |-> v.rest, err |-> "version not supported"]

\* FromBuffer(b, target), FromByteArray
FromBuffer(b, target) == OwidFromBuffer(EmptyOwid(target), b)

\* The padding character of base64.StdEncoding; the characters of its
\* alphabet are 0..63, in the order of their values.
StdPadding == 64

RECURSIVE EncodeToString(_)
\* base64.StdEncoding.EncodeToString
EncodeToString(b) ==
    IF b = NilSlice \/ Len(b) = 0 THEN <<>>
    ELSE IF Len(b) = 1
    THEN <<b[1] \div 4, (b[1] % 4) * 16, StdPadding, StdPadding>>
    ELSE IF Len(b) = 2
    THEN <<b[1] \div 4, (b[1] % 4) * 16 + b[2] \div 16, (b[2] % 16) * 4, StdPadding>>
    ELSE <<b[1] \div 4, (b[1] % 4) * 16 + b[2] \div 16,
           (b[2] % 16) * 4 + b[3] \div 64, b[3] % 64>>
         \o EncodeToString(SubSeq(b, 4, Len(b)))

RECURSIVE DecodeQuanta(_)
\* The bytes of a well-formed base64 text.
DecodeQuanta(t) ==
    IF Len(t) = 0 THEN <<>>
    ELSE LET b1 == t[1] * 4 + t[2] \div 16
             b2 == (t[2] % 16) * 16 + t[3] \div 4
             b3 == (t[3] % 4) * 64 + t[4]
         IN IF t[3] = StdPadding THEN <<b1>>
            ELSE IF t[4] = StdPadding THEN <<b1, b2>>
            ELSE <<b1, b2, b3>> \o DecodeQuanta(SubSeq(t, 5, Len(t)))

\* base64.StdEncoding.DecodeString: whole groups of four characters of the
\* alphabet, the last one padded at its end with one or two padding
\* characters.  The bytes decoded before an error are not kept.
DecodeString(t) ==
    LET n == Len(t)
        wellFormed ==
            /\ n % 4 = 0
            /\ \A i \in 1..n : t[i] >= 0 /\ t[i] <= StdPadding
            /\ \A i \in 1..n : t[i] = StdPadding => i >= n - 1
            /\ (n > 0 /\ t[n - 1] = StdPadding) => t[n] = StdPadding
    IN IF wellFormed THEN [v |-> DecodeQuanta(t), err |-> ""]
       ELSE [v |-> <<>>, err |-> "illegal base64 data"]

\* OWID.MarshalBinary: nil bytes on an error.
MarshalBinary(o, conv) ==
    LET r == ToBuffer(o, conv)
    IN IF r.err # "" THEN [b |-> NilSlice, err |-> r.err] ELSE r

\* OWID.AsBase64: the empty string on an error.
AsBase64(o, conv) ==
    LET r == MarshalBinary(o, conv)
    IN IF r.err # "" THEN [s |-> <<>>, err |-> r.err]
       ELSE [s |-> EncodeToString(r.b), err |-> ""]

\* FromBase64(value, m): no OWID on an error of the decoding.
FromBase64(value, m) ==
    LET b == DecodeString(value)
    IN IF b.err # "" THEN [o |-> NoPlain, rest |-> <<>>, err |-> b.err]
       ELSE FromBuffer(b.v, m)

\* The ways a byte is corrupted: one more, as testOWIDCorrupt does, or its
\* letter in the other case.
Corruptions == {"increment", "case"}

\* The byte v corrupted in the way how.
Corrupt(v, how) ==
    IF how = "increment" THEN (v + 1) % 256
    ELSE IF v >= 65 /\ v <= 90 THEN v + 32
    ELSE IF v >= 97 /\ v <= 122 THEN v - 32
    ELSE v

\* a, err := o.MarshalBinary()
CodecEncode(conv) ==
    /\ owid.how = "sign"
    /\ LET r == ToBuffer(Plain(owid), conv)
       IN buf' = IF r.err # "" THEN NoBuffer ELSE [bytes |-> r.b, pos |-> 0]
    /\ vres' = NoResult
    /\ UNCHANGED <<form, heap, mapHeap, signers, nextObj, nextKey, now, owid,
                   refreshed, file, th>>

\* a[i] = Corrupt(a[i], how), on the bytes of an OWID not yet altered.
CodecCorrupt(i, how) ==
    /\ buf.bytes # NilSlice
    /\ buf.pos = 0
    /\ Corrupt(buf.bytes[i], how) # buf.bytes[i]
    /\ buf' = [bytes |-> [buf.bytes EXCEPT ![i] = Corrupt(@, how)], pos |-> i]
    /\ vres' = NoResult
    /\ UNCHANGED <<form, heap, mapHeap, signers, nextObj, nextKey, now, owid,
                   refreshed, file, th>>

\* n, err := FromByteArray(a, target), with the target the OWID was signed
\* for; the caller then holds n, or nothing when decoding failed.
CodecDecode ==
    /\ buf.bytes # NilSlice
    /\ owid.how = "sign"
    /\ LET r == FromBuffer(buf.bytes, owid.Target)
       IN owid' = IF r.err # "" THEN [NoOwid EXCEPT !.how = "undecodable", !.pos = buf.pos]
                  ELSE [Version |-> r.o.Version, Domain |-> r.o.Domain,
                        TimeStamp |-> r.o.TimeStamp, Signature |-> r.o.Signature,
                        Target |-> r.o.Target, by |-> owid.by, at |-> owid.at,
                        how |-> "decoded", nkeys |-> owid.nkeys,
                        fresh |-> owid.fresh, pos |-> buf.pos]
    /\ buf' = NoBuffer
    /\ vres' = NoResult
    /\ UNCHANGED <<form, heap, mapHeap, signers, nextObj, nextKey, now,
                   refreshed, file, th>>

\* c, err := signer.currentKeys(); r, err := n.VerifyWithPublicKey(c.PublicKey)
CodecVerifyKey(d) ==
    /\ owid.how = "decoded"
    /\ getSigner(d) # 0
    /\ LET id == getSigner(d)
           ck == currentKeys(heap[id])
           r == IF ck.err # "" THEN [ok |-> FALSE, err |-> ck.err]
                ELSE VerifyWithPublicKey(Plain(owid), KeysById(heap[id], ck.k).PublicKey)
       IN /\ heap' = [heap EXCEPT ![id] = ck.s]
          /\ vres' = [sid |-> id, ok |-> r.ok, err |-> r.err, tried |-> <<>>,
                      domain |-> owid.Domain, via |-> "key"]
    /\ UNCHANGED <<form, mapHeap, signers, nextObj, nextKey, now, owid,
                   refreshed, buf, file, th>>

NextCodec ==
    \/ \E d \in Domains, reg \in Registrations : TestAddSigner(d, reg)
    \/ \E d \in Domains, m \in Targets, date \in SignDates : DoSign(d, m, date)
    \/ \E conv \in Conversions : CodecEncode(conv)
    \/ \E i \in DOMAIN buf.bytes, how \in Corruptions : CodecCorrupt(i, how)
    \/ CodecDecode
    \/ \E d \in Domains : CodecVerifyKey(d)
    \/ \E d \in Domains : DoVerify(d, owid.Domain)

SpecCodec == InitSigner /\ [][NextCodec]_vars

(***************************************************************************)
(* The JSON form of an OWID.  A JSON document is a function from the names  *)
(* of its members to their values; a value is a number, a string or null.  *)
(* A number is a whole number from 0 to 2^32 - 1, kept as its four bytes,   *)
(* the lowest first; a string of base64 text is the sequence of the values *)
(* of its characters.                                                      *)
(***************************************************************************)
JNumber(q) == [t |-> "number", n |-> q, s |-> <<>>]
JString(x) == [t |-> "string", n |-> <<0, 0, 0, 0>>, s |-> x]
JNull == [t |-> "null", n |-> <<0, 0, 0, 0>>, s |-> <<>>]

\* OWID.MarshalJSON
MarshalJSON(o, conv) ==
    [m \in {"version", "domain", "timestamp", "signature"} |->
        IF m = "version" THEN JNumber(<<o.Version, 0, 0, 0>>)
        ELSE IF m = "domain" THEN JString(o.Domain)
        ELSE IF m = "timestamp" THEN JNumber(GetDateInMinutes(o.TimeStamp, conv))
        ELSE JString(EncodeToString(o.Signature))]

\* m[name].(float64) and m[name].(string): the member is there with a value
\* of that type.
IsNumber(doc, name) == name \in DOMAIN doc /\ doc[name].t = "number"
IsString(doc, name) == name \in DOMAIN doc /\ doc[name].t = "string"

\* byte(v) of a float64 v: a value over 255 is left to the implementation,
\* its low 8 bits or 255.
ByteOf(q, conv) ==
    IF q[2] = 0 /\ q[3] = 0 /\ q[4] = 0 THEN q[1]
    ELSE IF conv = "wrap" THEN q[1] ELSE 255

\* OWID.UnmarshalJSON of a document that json.Unmarshal has parsed: the OWID
\* afterwards and the error.
UnmarshalJSON(o, doc, conv) ==
    LET sig == DecodeString(doc["signature"].s)
        o1 == [o EXCEPT !.Version = IF IsNumber(doc, "version")
                                     THEN ByteOf(doc["version"].n, conv)
                                     ELSE owidVersion1]
        o2 == [o1 EXCEPT !.Domain = doc["domain"].s]
        o3 == [o2 EXCEPT !.Signature = sig.v]
        o4 == [o3 EXCEPT !.TimeStamp = GetDateFromMinutes(doc["timestamp"].n)]
    IN IF ~IsString(doc, "domain") THEN [o |-> o1, err |-> "domain missing"]
       ELSE IF ~IsString(doc, "signature") THEN [o |-> o2, err |-> "signature missing"]
       ELSE IF sig.err # "" THEN [o |-> o3, err |-> sig.err]
       ELSE IF ~IsNumber(doc, "timestamp") THEN [o |-> o3, err |-> "timestamp missing"]
       ELSE [o |-> o4, err |-> Validate(o4)]

(***************************************************************************)
(* The forms of an OWID: a caller marshals the OWID it has had signed and   *)
(* unmarshals what it got, or hands the methods an OWID, bytes or a         *)
(* document of its own.  form keeps what the call was given and what it     *)
(* gave.                                                                   *)
(***************************************************************************)
\* The ways a caller takes a character off a base64 text, as
\* TestOWIDBase64CorruptMiss and TestOWIDBase64CorruptShort do, or none.
Cuts == {"none", "first", "last"}

\* The text s with a character taken off.
Cut(s, cut) ==
    IF cut = "first" THEN SubSeq(s, 2, Len(s))
    ELSE IF cut = "last" THEN SubSeq(s, 1, Len(s) - 1)
    ELSE s

\* a, err := o.MarshalBinary(), for the OWID the caller has had signed.
FormMarshalBinary(conv) ==
    /\ owid.how \in {"create", "sign", "resign"}
    /\ LET r == MarshalBinary(Plain(owid), conv)
       IN form' = [NoForm EXCEPT !.op = "MarshalBinary", !.conv = conv,
                                 !.o = Plain(owid), !.data = r.b, !.err = r.err,
                                 !.by = owid.by]
    /\ UNCHANGED <<heap, mapHeap, signers, nextObj, nextKey, now, owid, vres,
                   refreshed, buf, file, th>>

\* n, err := FromByteArray(a, target)
FormFromByteArray ==
    /\ form.op = "MarshalBinary"
    /\ form.err = ""
    /\ LET r == FromBuffer(form.data, form.o.Target)
       IN form' = [form EXCEPT !.op = "FromByteArray", !.out = r.o,
                               !.rest = r.rest, !.err = r.err]
    /\ UNCHANGED <<heap, mapHeap, signers, nextObj, nextKey, now, owid, vres,
                   refreshed, buf, file, th>>

\* a, err := o.AsBase64(), for the OWID the caller has had signed.
FormAsBase64(conv) ==
    /\ owid.how \in {"create", "sign", "resign"}
    /\ LET r == AsBase64(Plain(owid), conv)
       IN form' = [NoForm EXCEPT !.op = "AsBase64", !.conv = conv,
                                 !.o = Plain(owid), !.data = r.s, !.err = r.err,
                                 !.by = owid.by]
    /\ UNCHANGED <<heap, mapHeap, signers, nextObj, nextKey, now, owid, vres,
                   refreshed, buf, file, th>>

\* n, err := FromBase64(a, target), of the whole text a or of a[1:] or
\* a[:len(a)-1].
FormFromBase64(cut) ==
    /\ form.op = "AsBase64"
    /\ form.err = ""
    /\ LET r == FromBase64(Cut(form.data, cut), form.o.Target)
       IN form' = [form EXCEPT !.op = "FromBase64", !.arg = cut, !.out = r.o,
                               !.rest = r.rest, !.err = r.err]
    /\ UNCHANGED <<heap, mapHeap, signers, nextObj, nextKey, now, owid, vres,
                   refreshed, buf, file, th>>

\* b, err := json.Marshal(o), for the OWID the caller has had signed.
FormMarshalJSON(conv) ==
    /\ owid.how \in {"create", "sign", "resign"}
    /\ form' = [NoForm EXCEPT !.op = "MarshalJSON", !.conv = conv,
                              !.o = Plain(owid),
                              !.doc = MarshalJSON(Plain(owid), conv),
                              !.by = owid.by]
    /\ UNCHANGED <<heap, mapHeap, signers, nextObj, nextKey, now, owid, vres,
                   refreshed, buf, file, th>>

\* var a OWID; err = json.Unmarshal(b, &a); a.Target = the target of o
FormUnmarshalJSON ==
    /\ form.op = "MarshalJSON"
    /\ LET r == UnmarshalJSON(NoPlain, form.doc, form.conv)
       IN form' = [form EXCEPT !.op = "UnmarshalJSON",
                               !.out = [r.o EXCEPT !.Target = form.o.Target],
                               !.err = r.err]
    /\ UNCHANGED <<heap, mapHeap, signers, nextObj, nextKey, now, owid, vres,
                   refreshed, buf, file, th>>

NextForms ==
    \/ Tick
    \/ \E d \in Domains, reg \in Registrations : TestAddSigner(d, reg)
    \/ \E d \in Domains, m \in Targets : DoCreateOWIDandSign(d, m)
    \/ \E d \in Domains, m \in Targets, date \in SignDates : DoSign(d, m, date)
    \/ \E conv \in Conversions : FormMarshalBinary(conv)
    \/ FormFromByteArray
    \/ \E conv \in Conversions : FormAsBase64(conv)
    \/ \E cut \in Cuts : FormFromBase64(cut)
    \/ \E conv \in Conversions : FormMarshalJSON(conv)
    \/ FormUnmarshalJSON

SpecForms == InitSigner /\ [][NextForms]_vars

\* The life of an OWID: it is signed, then marshalled, verified and signed
\* again any number of times, while time passes and the signer gets keys.
NextLifecycle ==
    \/ Tick
    \/ \E d \in Domains, reg \in Registrations : TestAddSigner(d, reg)
    \/ \E d \in Domains : TestAddKeys(d)
    \/ \E d \in Domains, m \in Targets : DoCreateOWIDandSign(d, m)
    \/ \E d \in Domains, m \in Targets, date \in SignDates : DoSign(d, m, date)
    \/ \E d \in Domains : DoSignAgain(d)
    \/ \E conv \in Conversions : FormMarshalBinary(conv)
    \/ \E conv \in Conversions : FormMarshalJSON(conv)
    \/ \E d \in Domains : DoVerify(d, owid.Domain)

SpecLifecycle == InitSigner /\ [][NextLifecycle]_vars

(***************************************************************************)
(* The methods of an OWID on what a caller hands them: an OWID with any    *)
(* fields, any bytes, any document.  A caller makes one call.              *)
(***************************************************************************)
\* A signature of the right length, and one byte longer.
Signature64 == SignatureBytes(1, <<>>)
Signature65 == Signature64 \o <<0>>

\* The OWIDs a caller builds.
OwidInputs ==
    [Version : {owidEmpty, owidVersion1, 2},
     Domain : {<<>>, <<97>>},
     TimeStamp : {ZeroTime, IoDateBase - 1, IoDateBase, IoDateBase + TickStep},
     Signature : {NilSlice, <<>>, <<1, 2, 3>>, Signature64, Signature65},
     Target : {<<>>}]

\* The bytes of a well-formed version 1 OWID.
GoodBytes ==
    ToBuffer([Version |-> owidVersion1, Domain |-> <<97>>,
              TimeStamp |-> IoDateBase + TickStep, Signature |-> Signature64,
              Target |-> <<>>], "wrap").b

\* The bytes a caller hands FromBuffer: none, the empty marker alone and
\* followed by more, other versions, a whole OWID alone and followed by more,
\* and an OWID cut short in its signature, its timestamp and its domain.
ByteInputs ==
    {<<>>, <<owidEmpty>>, <<owidEmpty>> \o Tail(GoodBytes),
     <<2>> \o Tail(GoodBytes), <<255>> \o Tail(GoodBytes), <<2>>,
     GoodBytes, GoodBytes \o <<9, 9>>,
     SubSeq(GoodBytes, 1, Len(GoodBytes) - 1),
     SubSeq(GoodBytes, 1, 5), SubSeq(GoodBytes, 1, 2), <<owidVersion1>>}

\* The OWIDs whose FromBuffer method a caller calls: a new one, and one
\* that was filled before.
ReceiverInputs ==
    {NoPlain,
     [Version |-> owidVersion1, Domain |-> <<98>>, TimeStamp |-> IoDateBase,
      Signature |-> Signature65, Target |-> <<>>]}

\* The values of the members of the documents a caller hands UnmarshalJSON;
\* a member may be missing.
VersionInputs == {JNumber(<<0, 0, 0, 0>>), JNumber(<<1, 0, 0, 0>>),
                  JNumber(<<2, 0, 0, 0>>), JNumber(<<1, 1, 0, 0>>),
                  JString(<<49>>), JNull}
DomainInputs == {JString(<<97>>), JString(<<>>), JNumber(<<1, 0, 0, 0>>)}
SignatureInputs == {JString(EncodeToString(Signature64)), JString(<<>>),
                    JString(EncodeToString(<<1, 2, 3>>)),
                    JString(<<1, 2, 3>>), JNull}
TimestampInputs == {JNumber(<<0, 0, 0, 0>>), JNumber(PutUint32(TickStep)),
                    JString(<<49>>)}

\* The document with the members of names and the values given for them.
Document(names, v, d, g, t) ==
    [m \in names |-> IF m = "version" THEN v
                     ELSE IF m = "domain" THEN d
                     ELSE IF m = "signature" THEN g
                     ELSE t]

\* err := o.Validate()
InputValidate(o) ==
    /\ form.op = "none"
    /\ form' = [NoForm EXCEPT !.op = "Validate", !.o = o, !.out = o,
                              !.err = Validate(o)]
    /\ UNCHANGED <<heap, mapHeap, signers, nextObj, nextKey, now, owid, vres,
                   refreshed, buf, file, th>>

\* var f bytes.Buffer; err := o.ToBuffer(&f)
InputToBuffer(o, conv) ==
    /\ form.op = "none"
    /\ LET r == ToBuffer(o, conv)
       IN form' = [NoForm EXCEPT !.op = "ToBuffer", !.conv = conv, !.o = o,
                                 !.out = o, !.data = r.b, !.err = r.err]
    /\ UNCHANGED <<heap, mapHeap, signers, nextObj, nextKey, now, owid, vres,
                   refreshed, buf, file, th>>

\* err := o.FromBuffer(bytes.NewBuffer(b))
InputFromBuffer(o, b) ==
    /\ form.op = "none"
    /\ LET r == OwidFromBuffer(o, b)
       IN form' = [NoForm EXCEPT !.op = "FromBuffer", !.o = o, !.data = b,
                                 !.out = r.o, !.rest = r.rest, !.err = r.err]
    /\ UNCHANGED <<heap, mapHeap, signers, nextObj, nextKey, now, owid, vres,
                   refreshed, buf, file, th>>

\* var a OWID; err := json.Unmarshal(doc, &a)
InputUnmarshalJSON(doc, conv) ==
    /\ form.op = "none"
    /\ LET r == UnmarshalJSON(NoPlain, doc, conv)
       IN form' = [NoForm EXCEPT !.op = "UnmarshalDoc", !.conv = conv,
                                 !.doc = doc, !.out = r.o, !.err = r.err]
    /\ UNCHANGED <<heap, mapHeap, signers, nextObj, nextKey, now, owid, vres,
                   refreshed, buf, file, th>>

NextInputs ==
    \/ \E o \in OwidInputs : InputValidate(o)
    \/ \E o \in OwidInputs, conv \in Conversions : InputToBuffer(o, conv)
    \/ \E o \in ReceiverInputs, b \in ByteInputs : InputFromBuffer(o, b)
    \/ \E names \in SUBSET {"version", "domain", "signature", "timestamp"},
          v \in VersionInputs, d \in DomainInputs, g \in SignatureInputs,
          t \in TimestampInputs, conv \in Conversions :
              InputUnmarshalJSON(Document(names, v, d, g, t), conv)

SpecInputs == InitSigner /\ [][NextInputs]_vars

(***************************************************************************)
(* Verify applied to the signers and OWIDs a caller supplies, one call     *)
(* each.                                                                   *)
(***************************************************************************)
\* The key pairs of the signers: pair k was created at the k-th tick of the
\* clock; its public key is the PEM text that newKeys made or one that
\* convertBytesToPublicKey cannot read.
KeyInputs ==
    {[PrivateKey |-> PrivateKeyOf(k),
      PublicKey |-> IF good THEN PublicKeyOf(k) ELSE [pem |-> "", id |-> k],
      Created |-> IoDateBase + (k - 1) * TickStep] :
        k \in 1..MaxInputKeys, good \in BOOLEAN}

\* The signers: domain "a" with up to MaxInputKeys different key pairs in
\* every order, the descending order of SortKeys and the ascending order of
\* storeTest.addKeys among them.
SignerInputs ==
    {[Domain |-> <<97>>, Name |-> "N1", TermsURL |-> "U1", Keys |-> ks,
      current |-> 0] :
        ks \in UNION {{f \in [1..n -> KeyInputs] :
                          \A i, j \in 1..n :
                              i # j => f[i].PrivateKey.id # f[j].PrivateKey.id} :
                      n \in 0..MaxInputKeys}}

\* The OWIDs: signed with one of the key pairs or not at all, dated at the
\* epoch or one tick later, under the signer's domain, the same in another
\* case, or another domain.
VerifyInputs ==
    {[Version |-> owidVersion1, Domain |-> d, TimeStamp |-> t,
      Signature |-> g, Target |-> <<>>] :
        d \in OwidDomains, t \in {IoDateBase, IoDateBase + TickStep},
        g \in {SignatureBytes(k, <<>>) : k \in 1..MaxInputKeys} \cup {NilSlice}}

\* The OWID o as a caller holds it who did not sign it.
Given(o) ==
    [Version |-> o.Version, Domain |-> o.Domain, TimeStamp |-> o.TimeStamp,
     Signature |-> o.Signature, Target |-> o.Target,
     by |-> 0, at |-> 0, how |-> "given", nkeys |-> 0, fresh |-> FALSE,
     pos |-> 0]

\* v, err := s.Verify(o)
InputVerify(s, o) ==
    /\ heap = <<>> /\ owid = NoOwid
    /\ heap' = <<s>>
    /\ owid' = Given(o)
    /\ vres' = Verified(1, o.Domain, SignerVerify(s, o), "signer")
    /\ UNCHANGED <<form, mapHeap, signers, nextObj, nextKey, now, refreshed,
                   buf, file, th>>

\* v, err := s.PublicSigner().Verify(o)
InputVerifyPublic(s, o) ==
    /\ heap = <<>> /\ owid = NoOwid
    /\ heap' = <<s>>
    /\ owid' = Given(o)
    /\ vres' = Verified(1, o.Domain, SignerPublicVerify(PublicSigner(s), o),
                        "public")
    /\ UNCHANGED <<form, mapHeap, signers, nextObj, nextKey, now, refreshed,
                   buf, file, th>>

NextVerify ==
    \/ \E s \in SignerInputs, o \in VerifyInputs : InputVerify(s, o)
    \/ \E s \in SignerInputs, o \in VerifyInputs : InputVerifyPublic(s, o)

SpecVerify == InitSigner /\ [][NextVerify]_vars

(***************************************************************************)
(* The HTTP handlers, each answering one request: form is the answer.      *)
(***************************************************************************)
\* json.Marshal of a Signer: the exported fields; current is not written.
ToJSON(s) ==
    [domain |-> s.Domain, name |-> s.Name, termsUrl |-> s.TermsURL,
     keys |-> [i \in 1..Len(s.Keys) |->
                  [privateKey |-> s.Keys[i].PrivateKey,
                   publicKey |-> s.Keys[i].PublicKey,
                   created |-> s.Keys[i].Created]]]

\* json.Marshal of a PublicKey: key has omitempty.
PublicKeyToJSON(k) ==
    IF k.Key.pem = "" THEN [created |-> k.Created]
    ELSE [key |-> k.Key, created |-> k.Created]

\* json.Marshal of a SignerPublic.
SignerPublicToJSON(p) ==
    [domain |-> p.Domain, name |-> p.Name, termsUrl |-> p.TermsURL,
     publicKeys |-> [i \in 1..Len(p.PublicKeys) |->
                        PublicKeyToJSON(p.PublicKeys[i])]]

\* storeBase.GetSigners: the map of the store itself.
GetSigners == mapHeap[signers]

\* getSignersAsJSON: json.Marshal of a map[string]*Signer, an object with
\* one member for each domain.
getSignersAsJSON ==
    [d \in DOMAIN GetSigners |-> ToJSON(heap[GetSigners[d]])]

\* Services.GetSignerHttp for a request to host d: the signer of the store
\* for the host, 0 for nil when there is none and the error was written.
GetSignerHttp(d) == getSigner(d)

\* HandlerSigners: GET /owid/api/v1/owids
HandlerSigners ==
    /\ form.op = "none"
    /\ form' = [NoForm EXCEPT !.op = "HandlerSigners", !.doc = getSignersAsJSON]
    /\ UNCHANGED <<heap, mapHeap, signers, nextObj, nextKey, now, owid, vres,
                   refreshed, buf, file, th>>

\* HandlerSigner: GET /owid/api/v1/signer for host d
HandlerSigner(d) ==
    /\ form.op = "none"
    /\ LET g == GetSignerHttp(d)
       IN form' = IF g = 0
                  THEN [NoForm EXCEPT !.op = "HandlerSigner",
                                      !.err = "signer not found"]
                  ELSE [NoForm EXCEPT !.op = "HandlerSigner", !.by = g,
                                      !.doc = SignerPublicToJSON(PublicSigner(heap[g]))]
    /\ UNCHANGED <<heap, mapHeap, signers, nextObj, nextKey, now, owid, vres,
                   refreshed, buf, file, th>>

\* The hosts of the requests: "a" and "b".
Hosts == {<<97>>, <<98>>}

minNameLength == 5
maxNameLength == 40
maxTermsURLLength == 250

\* A text of n characters.
Chars(n) == [i \in 1..n |-> 110]

\* The names of the registration form: none, and of lengths at and next to
\* the two limits.
NameInputs ==
    {Chars(n) : n \in {0, minNameLength - 1, minNameLength, minNameLength + 1,
                       maxNameLength, maxNameLength + 1}}

\* The terms URLs of the registration form, each by what url.ParseRequestURI
\* makes of it, whether its scheme has capital letters, and its length: an
\* absolute URI, an absolute path, a text that is neither ("bad", or "#"
\* repeated) and no text.
TermsURLInputs ==
    {[kind |-> "absolute", upper |-> FALSE, len |-> 20],
     [kind |-> "absolute", upper |-> TRUE, len |-> 20],
     [kind |-> "absolute", upper |-> FALSE, len |-> maxTermsURLLength],
     [kind |-> "absolute", upper |-> FALSE, len |-> maxTermsURLLength + 1],
     [kind |-> "path", upper |-> FALSE, len |-> 20],
     [kind |-> "other", upper |-> FALSE, len |-> 3],
     [kind |-> "other", upper |-> FALSE, len |-> maxTermsURLLength + 1],
     [kind |-> "empty", upper |-> FALSE, len |-> 0]}

\* url.ParseRequestURI(rawURL): an absolute URI or an absolute path, the
\* scheme in lower case; u.String() gives the text back as parsed.
ParseRequestURI(rawURL) ==
    IF rawURL.kind \in {"absolute", "path"}
    THEN [u |-> [rawURL EXCEPT !.upper = FALSE], err |-> ""]
    ELSE [u |-> rawURL, err |-> "invalid URI for request"]

\* HandlerRegister finding no fault with any name.
NameErrorNever(name) == ""

\* HandlerRegister: m.NameError for the name of the form.
NameError(name) ==
    IF Len(name) <= minNameLength \/ Len(name) > maxNameLength
    THEN "Name must be between 5 and 40 characters"
    ELSE ""

\* HandlerRegister: m.TermsURL and m.TermsURLError for the termsURL of the
\* form; TermsURL stays the empty string on an error.
TermsURL(rawURL) ==
    LET none == [kind |-> "empty", upper |-> FALSE, len |-> 0]
        p == ParseRequestURI(rawURL)
    IN IF rawURL.len > maxTermsURLLength
       THEN [TermsURL |-> none, TermsURLError |-> "Terms URL maximum length 250"]
       ELSE IF p.err # ""
       THEN [TermsURL |-> none, TermsURLError |-> "Terms URL is invalid"]
       ELSE [TermsURL |-> p.u, TermsURLError |-> ""]

\* HandlerRegister for a request to host d with the form values name and
\* termsURL; registerNewSigner and storeTest.addSigner when they are valid.
\* form.doc is the Register model the page is made from, form.data and
\* form.arg the name and the termsURL of the request.
HandlerRegister(d, name, termsURL) ==
    LET g == getSigner(d)
        t == TermsURL(termsURL)
        e == NameError(name)
        valid == g = 0 /\ e = "" /\ t.TermsURLError = ""
        id == nextObj + 1
        n == newSigner(d, name, t.TermsURL, newKeys(nextKey + 1, now))
        m == mapHeap[signers]
        m2 == [x \in DOMAIN m \cup {d} |-> IF x = d THEN id ELSE m[x]]
        h2 == [x \in (DOMAIN heap \cup {id}) |-> IF x = id THEN n ELSE heap[x]]
    IN /\ form.op = "none"
       /\ valid => (nextObj < MaxObj /\ nextKey < MaxKeys)
       /\ form' = IF g # 0
                  THEN [NoForm EXCEPT !.op = "HandlerRegister",
                           !.data = name, !.arg = termsURL,
                           !.err = "Domain already registered",
                           !.doc = [Domain |-> d]]
                  ELSE [NoForm EXCEPT !.op = "HandlerRegister",
                           !.data = name, !.arg = termsURL,
                           !.by = IF valid THEN id ELSE 0,
                           !.doc = [Domain |-> d, Name |-> name,
                                    TermsURL |-> t.TermsURL, NameError |-> e,
                                    TermsURLError |-> t.TermsURLError,
                                    ReadOnly |-> valid]]
       /\ IF valid
          THEN /\ heap' = Collect(h2, {m2[x] : x \in DOMAIN m2})
               /\ mapHeap' = [mapHeap EXCEPT ![signers] = m2]
               /\ nextObj' = nextObj + 1
               /\ nextKey' = nextKey + 1
               /\ refreshed' = FALSE
          ELSE UNCHANGED <<heap, mapHeap, nextObj, nextKey, refreshed>>
       /\ vres' = NoResult
       /\ UNCHANGED <<signers, now, owid, buf, file, th>>

\* s.access.GetAllowedHttp allowing every request.
GetAllowedHttpAny(accessKey) == TRUE

\* s.access.GetAllowedHttp: access.NewFixed([]string{testAccessKey}) allows
\* the request whose access key is "A".
GetAllowedHttp(accessKey) == accessKey = "A"

\* HandlerAddKeys for a request to host d with the access key given:
\* newKeys, storeTest.addKeys, storeTest.refresh, and the look for the new
\* key in the signer of GetSigner.
HandlerAddKeys(d, accessKey) ==
    LET g == GetSignerHttp(d)
        k == newKeys(nextKey + 1, now)
        done == GetAllowedHttp(accessKey) /\ g # 0
        h2 == [heap EXCEPT ![g].Keys = Append(@, k)]
        found == \E i \in 1..Len(h2[getSigner(d)].Keys) :
                     h2[getSigner(d)].Keys[i] = k
    IN /\ form.op = "none"
       /\ done => nextKey < MaxKeys
       /\ form' = [NoForm EXCEPT !.op = "HandlerAddKeys", !.by = g,
                     !.err = IF ~GetAllowedHttp(accessKey) THEN "access denied"
                             ELSE IF g = 0 THEN "signer not found"
                             ELSE IF ~found THEN "new key not found"
                             ELSE ""]
       /\ IF done
          THEN /\ heap' = h2
               /\ nextKey' = nextKey + 1
               /\ refreshed' = TRUE
          ELSE UNCHANGED <<heap, nextKey, refreshed>>
       /\ vres' = NoResult
       /\ UNCHANGED <<mapHeap, signers, nextObj, now, owid, buf, file, th>>

\* The store of the handler tests, filled and changed as the tests do, and
\* one request to one of the handlers.
NextHandlers ==
    \/ Tick
    \/ \E d \in Domains, reg \in Registrations : TestAddSigner(d, reg)
    \/ \E d \in Domains : TestAddKeys(d)
    \/ HandlerSigners
    \/ \E d \in Hosts : HandlerSigner(d)
    \/ \E d \in Hosts, name \in NameInputs, termsURL \in TermsURLInputs :
          HandlerRegister(d, name, termsURL)
    \/ \E d \in Hosts, accessKey \in {"A", "B"} : HandlerAddKeys(d, accessKey)

SpecHandlers == InitSigner /\ [][NextHandlers]_vars

(***************************************************************************)
(* The Local store: the signers are kept in a JSON file and cached in the  *)
(* map storeBase.signers.  Goroutines call the store concurrently; a       *)
(* goroutine's position in its call is th[t].pc.  addSigner and addKeys    *)
(* hold the mutex from their first statement to their return, and refresh  *)
(* holds it for its assignment of l.signers: each is one step.  Reading    *)
(* the file and building the new map are done without the mutex, in steps  *)
(* of their own.                                                           *)
(***************************************************************************)
Threads == {1, 2}

\* What reading the file can give: its content, an I/O error, or bytes that
\* json.Unmarshal rejects.
ReadOutcomes == {"ok", "io", "garbage"}

NoReg == [name |-> "", termsURL |-> ""]

\* A goroutine that is in no call.
Idle ==
    [op |-> "idle", pc |-> "idle", d |-> <<>>, reg |-> NoReg, s |-> 0,
     data |-> <<>>, todo |-> {}, res |-> 0, err |-> "", n |-> 0,
     lookups |-> 0, first |-> "none"]

\* json.Unmarshal into a new Signer: current is nil.
FromJSON(j) ==
    [Domain |-> j.domain, Name |-> j.name, TermsURL |-> j.termsUrl,
     Keys |-> [i \in 1..Len(j.keys) |->
                  [PrivateKey |-> j.keys[i].privateKey,
                   PublicKey |-> j.keys[i].publicKey,
                   Created |-> j.keys[i].created]],
     current |-> 0]

\* The insertion of k into keys, sorted in descending order of Created,
\* behind the keys that are not older than k.
InsertKey(keys, k) ==
    LET n == Cardinality({i \in 1..Len(keys) : keys[i].Created >= k.Created})
    IN (SubSeq(keys, 1, n) \o <<k>>) \o SubSeq(keys, n + 1, Len(keys))

RECURSIVE SortFrom(_, _, _)
SortFrom(keys, i, sorted) ==
    IF i > Len(keys) THEN sorted
    ELSE SortFrom(keys, i + 1, InsertKey(sorted, keys[i]))

\* Signer.SortKeys: descending order of Created (sort.Slice sorts a slice of
\* fewer than 12 elements by insertion).
SortKeys(s) == [s EXCEPT !.Keys = SortFrom(s.Keys, 1, <<>>)]

\* The smallest id that names no object of heap h.
NewId(h) == CHOOSE i \in 1..(Cardinality(DOMAIN h) + 1) :
                i \notin DOMAIN h /\ \A j \in 1..(i - 1) : j \in DOMAIN h

\* The smallest of a non-empty set of domains, in the order of their bytes.
FirstDomain(ds) == CHOOSE d \in ds : \A e \in ds : d[1] <= e[1]

\* The maps and the Signer objects still reachable from the published map
\* sg and from the maps the goroutines thr are building.
LiveMaps(mh, sg, thr) ==
    [m \in (DOMAIN mh \cap ({sg} \cup {thr[t].s : t \in Threads})) |-> mh[m]]
LiveObjects(h, mh) ==
    Collect(h, UNION {{mh[m][d] : d \in DOMAIN mh[m]} : m \in DOMAIN mh})

\* Local.save: json.MarshalIndent of the map m of heap h, written to the file.
save(h, m) == [kind |-> "json", data |-> [d \in DOMAIN m |-> ToJSON(h[m[d]])]]

\* NewLocalStore(file) on a file that does not exist yet: the file is
\* created empty and refresh caches an empty map.
InitLocal ==
    /\ heap = <<>>
    /\ mapHeap = <<<<>>>>
    /\ signers = 1
    /\ nextObj = 0
    /\ nextKey = 0
    /\ now = 0
    /\ owid = NoOwid
    /\ vres = NoResult
    /\ refreshed = TRUE
    /\ buf = NoBuffer
    /\ file = EmptyFile
    /\ th = [t \in Threads |-> Idle]
    /\ form = NoForm

\* Local.GetSigner refreshing whatever the first lookup found.
AfterLookup1Always(c) == "read"

\* The pc after the first lookup of Local.GetSigner found c: refresh on a
\* miss only.
AfterLookup1(c) == IF c = 0 THEN "read" ELSE "done"

\* Local.GetSigner(d) up to its first lookup, called by itself (op "get") or
\* by HandlerRegister (op "register").
GetSignerLookup1(t, op, d, reg) ==
    /\ th[t].pc = "idle"
    /\ LET c == getSigner(d)
           pc == AfterLookup1(c)
       IN th' = [th EXCEPT ![t] =
                    [Idle EXCEPT !.op = op, !.d = d, !.reg = reg, !.pc = pc,
                                 !.res = c, !.lookups = 1,
                                 !.first = IF c = 0 THEN "miss" ELSE "hit",
                                 !.n = IF pc = "read" THEN 1 ELSE 0]]
    /\ UNCHANGED <<form, heap, mapHeap, signers, nextObj, nextKey, now, owid, vres,
                   refreshed, buf, file>>

\* A call of Local.refresh() by itself.
CallRefresh(t) ==
    /\ th[t].pc = "idle"
    /\ th' = [th EXCEPT ![t] = [Idle EXCEPT !.op = "refresh", !.pc = "read", !.n = 1]]
    /\ UNCHANGED <<form, heap, mapHeap, signers, nextObj, nextKey, now, owid, vres,
                   refreshed, buf, file>>

\* Local.refresh assigning the empty result of the failed fetchSigners
\* before it returns the error e.
RefreshFailClearing(t, e) ==
    /\ th' = [th EXCEPT ![t] = [@ EXCEPT !.pc = "done", !.err = e, !.res = 0]]
    /\ mapHeap' = [mapHeap EXCEPT ![signers] = <<>>]
    /\ UNCHANGED <<heap, signers>>

\* Local.refresh returning the error e of fetchSigners: nothing is assigned.
RefreshFail(t, e) ==
    /\ th' = [th EXCEPT ![t] = [@ EXCEPT !.pc = "done", !.err = e, !.res = 0]]
    /\ UNCHANGED <<heap, mapHeap, signers>>

\* fetchSigners filling the map that is already assigned to l.signers.
StartBuildPublished(t) ==
    /\ LET m == NewId(mapHeap)
       IN /\ mapHeap' = LiveMaps([x \in DOMAIN mapHeap \cup {m} |->
                                     IF x = m THEN <<>> ELSE mapHeap[x]],
                                 m, th)
          /\ signers' = m
          /\ th' = [th EXCEPT ![t] =
                       [@ EXCEPT !.s = m, !.data = file.data,
                                 !.todo = DOMAIN file.data,
                                 !.pc = IF DOMAIN file.data = {} THEN "swap"
                                        ELSE "build"]]
    /\ UNCHANGED heap

\* fetchSigners with the file read and decodable: s := make(map[string]*Signer)
\* is a new map that only this goroutine knows, filled from the data read.
StartBuild(t) ==
    /\ LET m == NewId(mapHeap)
       IN /\ mapHeap' = [x \in DOMAIN mapHeap \cup {m} |->
                            IF x = m THEN <<>> ELSE mapHeap[x]]
          /\ th' = [th EXCEPT ![t] =
                       [@ EXCEPT !.s = m, !.data = file.data,
                                 !.todo = DOMAIN file.data,
                                 !.pc = IF DOMAIN file.data = {} THEN "swap"
                                        ELSE "build"]]
    /\ UNCHANGED <<heap, signers>>

\* Local.fetchSigners: readLocalStore, then the start of json.Unmarshal.
RefreshFetch(t, outcome) ==
    /\ th[t].pc = "read"
    /\ IF outcome = "io" THEN RefreshFail(t, "read error")
       ELSE IF outcome = "garbage" THEN RefreshFail(t, "invalid character")
       ELSE StartBuild(t)
    /\ UNCHANGED <<form, nextObj, nextKey, now, owid, vres, refreshed, buf, file>>

\* json.Unmarshal decoding the next signer of the data read into the new
\* map, and refresh sorting its keys.
RefreshBuild(t) ==
    /\ th[t].pc = "build"
    /\ LET d == FirstDomain(th[t].todo)
           id == NewId(heap)
           m == mapHeap[th[t].s]
       IN /\ heap' = [x \in DOMAIN heap \cup {id} |->
                         IF x = id THEN SortKeys(FromJSON(th[t].data[d]))
                         ELSE heap[x]]
          /\ mapHeap' = [mapHeap EXCEPT ![th[t].s] =
                            [x \in DOMAIN m \cup {d} |-> IF x = d THEN id ELSE m[x]]]
          /\ th' = [th EXCEPT ![t] =
                       [@ EXCEPT !.todo = @ \ {d},
                                 !.pc = IF th[t].todo = {d} THEN "swap" ELSE "build"]]
    /\ UNCHANGED <<form, signers, nextObj, nextKey, now, owid, vres, refreshed, buf, file>>

\* Local.refresh: l.mutex.Lock(); l.signers = s; l.mutex.Unlock(); return nil
RefreshSwap(t) ==
    /\ th[t].pc = "swap"
    /\ signers' = th[t].s
    /\ th' = [th EXCEPT ![t] =
                 [@ EXCEPT !.s = 0, !.data = <<>>, !.todo = {},
                           !.pc = IF th[t].op = "refresh" THEN "done" ELSE "lookup2"]]
    /\ mapHeap' = LiveMaps(mapHeap, signers', th')
    /\ heap' = LiveObjects(heap, mapHeap')
    /\ UNCHANGED <<form, nextObj, nextKey, now, owid, vres, refreshed, buf, file>>

\* Local.GetSigner: the lookup after the refresh, and its return; then
\* HandlerRegister goes on to add the signer when there is none.
GetSignerLookup2(t) ==
    /\ th[t].pc = "lookup2"
    /\ LET c == getSigner(th[t].d)
       IN th' = [th EXCEPT ![t] =
                    [@ EXCEPT !.res = c, !.lookups = @ + 1,
                              !.pc = IF th[t].op = "register" /\ c = 0 THEN "add"
                                     ELSE "done"]]
    /\ UNCHANGED <<form, heap, mapHeap, signers, nextObj, nextKey, now, owid, vres,
                   refreshed, buf, file>>

\* Local.addSigner(g) for g := newSigner(d, name, termsURL, newKeys()): the
\* store, the file and the error returned.
addSigner(d, reg) ==
    LET id == NewId(heap)
        g == newSigner(d, reg.name, reg.termsURL, newKeys(nextKey + 1, now))
        m == mapHeap[signers]
        m2 == [x \in DOMAIN m \cup {d} |-> IF x = d THEN id ELSE m[x]]
        mh == [mapHeap EXCEPT ![signers] = m2]
        h == [x \in DOMAIN heap \cup {id} |-> IF x = id THEN g ELSE heap[x]]
    IN [heap |-> LiveObjects(h, mh), mapHeap |-> mh, file |-> save(h, m2), err |-> ""]

\* Local.addKeys(d, k) for k := newKeys(): the store, the file and the error
\* returned; the store holds no signer for d when the call dereferences nil.
addKeys(d) ==
    LET id == getSigner(d)
        h == [heap EXCEPT ![id].Keys = Append(@, newKeys(nextKey + 1, now))]
    IN IF id = 0
       THEN [heap |-> heap, mapHeap |-> mapHeap, file |-> file,
             err |-> "nil pointer dereference"]
       ELSE [heap |-> h, mapHeap |-> mapHeap, file |-> save(h, mapHeap[signers]),
             err |-> ""]

\* The goroutine t has the store changed to r by its call op(d, reg), which
\* returns.
Changed(t, op, d, reg, r) ==
    /\ heap' = r.heap
    /\ mapHeap' = r.mapHeap
    /\ file' = r.file
    /\ nextKey' = nextKey + 1
    /\ th' = [th EXCEPT ![t] =
                 [Idle EXCEPT !.op = op, !.d = d, !.reg = reg, !.pc = "done",
                              !.err = r.err, !.first = th[t].first,
                              !.n = th[t].n, !.lookups = th[t].lookups]]
    /\ UNCHANGED <<form, signers, nextObj, now, owid, vres, refreshed, buf>>

\* A call of store.addSigner by itself.
CallAddSigner(t, d, reg) ==
    /\ th[t].pc = "idle"
    /\ nextKey < MaxKeys
    /\ Changed(t, "addSigner", d, reg, addSigner(d, reg))

\* registerNewSigner, after HandlerRegister found no signer for the domain.
RegisterAdd(t) ==
    /\ th[t].pc = "add"
    /\ nextKey < MaxKeys
    /\ Changed(t, "register", th[t].d, th[t].reg, addSigner(th[t].d, th[t].reg))

\* A call of store.addKeys by itself.
CallAddKeys(t, d) ==
    /\ th[t].pc = "idle"
    /\ nextKey < MaxKeys
    /\ Changed(t, "addKeys", d, NoReg, addKeys(d))

\* The call of goroutine t has returned; its caller takes the result.
Return(t) ==
    /\ th[t].pc = "done"
    /\ th' = [th EXCEPT ![t] = Idle]
    /\ UNCHANGED <<form, heap, mapHeap, signers, nextObj, nextKey, now, owid, vres,
                   refreshed, buf, file>>

Init == InitLocal

Next ==
    \/ \E t \in Threads, d \in Domains : GetSignerLookup1(t, "get", d, NoReg)
    \/ \E t \in Threads, d \in Domains, reg \in Registrations :
           GetSignerLookup1(t, "register", d, reg)
    \/ \E t \in Threads : CallRefresh(t)
    \/ \E t \in Threads, outcome \in ReadOutcomes : RefreshFetch(t, outcome)
    \/ \E t \in Threads : RefreshBuild(t)
    \/ \E t \in Threads : RefreshSwap(t)
    \/ \E t \in Threads : GetSignerLookup2(t)
    \/ \E t \in Threads : RegisterAdd(t)
    \/ \E t \in Threads, d \in Domains, reg \in Registrations : CallAddSigner(t, d, reg)
    \/ \E t \in Threads, d \in Domains : CallAddKeys(t, d)
    \/ \E t \in Threads : Return(t)

Spec == Init /\ [][Next]_vars

(***************************************************************************)
(* Properties of signing and verification.                                 *)
(***************************************************************************)
\* The key pair whose public key verifies the signature of OWID o, among
\* the keys of signer s.
SigningKey(s, o) ==
    CHOOSE k \in KeyIds(s.Keys) : VerifyWithPublicKey(Plain(o), PublicKeyOf(k)).ok

\* The caller has just had the signer that made the OWID it holds verify
\* that OWID, unaltered.
VerifiedBySigner ==
    /\ vres.via = "signer"
    /\ vres.sid = owid.by
    /\ vres.domain = owid.Domain

\* C1: the OWID returned by S.CreateOWIDandSign(b), for a signer S holding at
\* least one key and a target b, makes S.Verify return (true, no error).
C1_SignVerifyRoundTrip ==
    (VerifiedBySigner /\ owid.how = "create") => (vres.ok /\ vres.err = "")

\* C3: Signer.Verify and SignerPublic.Verify compare the signer's domain with
\* the OWID's ignoring case; when they differ the call returns false and the
\* domain error before any key is tried, and when they are equal ignoring
\* case no domain error is returned.
C3_CrossDomainRefusal ==
    vres.via # "none" =>
        LET s == heap[vres.sid]
            same == /\ Len(s.Domain) = Len(vres.domain)
                    /\ \A i \in 1..Len(s.Domain) :
                           ToLower(s.Domain[i]) = ToLower(vres.domain[i])
        IN /\ ~same => (~vres.ok /\ vres.err = "can't use signer with OWID"
                        /\ vres.tried = <<>>)
           /\ same => vres.err # "can't use signer with OWID"

\* A validly signed OWID of domain "a" presented under domain "b" is refused
\* by the public signer of "a".
C3_Witness ==
    /\ vres.via = "public"
    /\ owid.how = "sign"
    /\ owid.Domain = <<97>>
    /\ vres.domain = <<98>>
    /\ vres.err = "can't use signer with OWID"

\* C4: once a signer that held only a key created at t1 has had a key created
\* at t2 > t1 appended with addKeys, followed by refresh, every OWID it signed
\* at a time from t1 on, before or after the rotation, verifies as true.
C4_RotationPreservesHistory ==
    (/\ VerifiedBySigner
     /\ refreshed
     /\ Len(heap[vres.sid].Keys) = 2
     /\ heap[vres.sid].Keys[1].Created < heap[vres.sid].Keys[2].Created
     /\ owid.at >= heap[vres.sid].Keys[1].Created)
        => (vres.ok /\ vres.err = "")

\* C6: after addKeys(domain, k) followed by refresh(), the signer that
\* GetSigner(domain) returns signs with the key of maximum created time, also
\* when it had signed, and so cached its current key, before the rotation.
C6_RotatedKeySigns ==
    (owid.how # "none" /\ owid.fresh /\ owid.by \in DOMAIN heap) =>
        LET s == heap[owid.by]
        IN \A i \in 1..owid.nkeys :
               s.Keys[i].Created <= KeysById(s, SigningKey(s, owid)).Created

\* C2: changing any single byte of the binary form of a signed OWID (version,
\* domain, timestamp or signature) and decoding it again either fails to
\* decode or gives an OWID that does not verify as true, against the signer's
\* current key and against the signer.
C2_TamperNeverVerifies ==
    (owid.how = "decoded" /\ owid.pos # 0 /\ vres.via # "none"
     /\ vres.sid = owid.by) => ~vres.ok

\* C12: after Signer.Sign(o) or CreateOWIDandSign has returned without error,
\* o.Version is 1, o.Domain is the signer's domain, o.TimeStamp is the current
\* time in whole minutes and not before the epoch, and o.Validate() returns
\* no error.
C12_SignPostcondition ==
    (owid.how \in {"create", "sign"} /\ owid.by \in DOMAIN heap) =>
        /\ owid.Version = owidVersion1
        /\ owid.Domain = heap[owid.by].Domain
        /\ owid.TimeStamp = owid.at
        /\ owid.TimeStamp >= IoDateBase
        /\ Validate(Plain(owid)) = ""

\* The caller has just had Signer.Verify of a signer of the OWID's domain,
\* ignoring case, check the OWID it holds.
VerifiedSameDomain ==
    /\ vres.via = "signer"
    /\ EqualFold(heap[vres.sid].Domain, vres.domain)

compare(a, b, conv) ==
    /\ a.Version = b.Version
    /\ a.Domain = b.Domain
    /\ GetDateInMinutes(a.TimeStamp, conv) = GetDateInMinutes(b.TimeStamp, conv)
    /\ a.Signature = b.Signature

\* What Signer.Verify of signer s returns for the OWID o.
VerifyResult(s, o) == <<SignerVerify(s, o).ok, SignerVerify(s, o).err>>

\* C13: decoding the bytes of MarshalBinary or the text of AsBase64 of a
\* signed OWID o succeeds and gives an OWID equal to o in version, domain,
\* timestamp in minutes and signature, which the signer verifies with the
\* same result as o; decoding the text less its first or its last character
\* fails.
C13_BinaryRoundTrip ==
    /\ (form.op = "FromByteArray" \/ (form.op = "FromBase64" /\ form.arg = "none"))
           => /\ form.err = ""
              /\ compare(form.out, form.o, form.conv)
              /\ form.by \in DOMAIN heap
                     => VerifyResult(heap[form.by], form.out)
                            = VerifyResult(heap[form.by], form.o)
    /\ (form.op = "FromBase64" /\ form.arg # "none") => form.err # ""

\* C14: for a signed OWID o, UnmarshalJSON of MarshalJSON of o succeeds and
\* gives an OWID with the version, domain, timestamp in minutes and signature
\* of o, which passes Validate and which, with the target of o, the signer
\* that signed o verifies as true.
C14_JSONRoundTrip ==
    form.op = "UnmarshalJSON" =>
        /\ form.err = ""
        /\ compare(form.out, form.o, form.conv)
        /\ Validate(form.out) = ""
        /\ form.by \in DOMAIN heap
               => VerifyResult(heap[form.by], form.out) = <<TRUE, "">>

\* C15: UnmarshalJSON sets the version to 1 only when the version member is
\* missing; it fails when the domain, signature or timestamp member is
\* missing; it succeeds only if the OWID passes Validate; so a document whose
\* version member is there with a value other than the number 1 is rejected.
C15_JSONAcceptance ==
    form.op = "UnmarshalDoc" =>
        /\ (form.err = "" /\ "version" \notin DOMAIN form.doc)
               => form.out.Version = owidVersion1
        /\ (form.err = "" /\ "version" \in DOMAIN form.doc)
               => form.doc["version"] = JNumber(<<owidVersion1, 0, 0, 0>>)
        /\ {"domain", "signature", "timestamp"} \ DOMAIN form.doc # {}
               => form.err # ""
        /\ form.err = "" => Validate(form.out) = ""

\* C16: Validate returns an error exactly when the signature is nil, the
\* domain is empty, the timestamp is before the epoch or the version is not
\* 1, and it leaves the OWID as it was.
C16_ValidateExact ==
    form.op = "Validate" =>
        /\ form.err # "" <=> \/ form.o.Signature = NilSlice
                             \/ form.o.Domain = <<>>
                             \/ form.o.TimeStamp < IoDateBase
                             \/ form.o.Version # owidVersion1
        /\ form.out = form.o

\* Validate has refused an OWID for its version alone.
C16_Witness ==
    /\ form.op = "Validate"
    /\ form.o.Version = 2
    /\ form.o.Signature = Signature64
    /\ form.o.Domain = <<97>>
    /\ form.o.TimeStamp = IoDateBase
    /\ form.err = "version invalid"

\* C17: a binary write succeeds exactly when the signature has 64 bytes; a
\* binary read of a version 1 OWID that succeeds gives a signature of 64
\* bytes, and fails when fewer than 64 bytes remain for the signature; an
\* OWID that UnmarshalJSON accepts has a signature of 64 bytes.
C17_SignatureLength ==
    /\ form.op = "ToBuffer" =>
           (form.err = "" <=> (/\ form.o.Signature # NilSlice
                               /\ Len(form.o.Signature) = signatureLength))
    /\ (form.op = "FromBuffer" /\ form.data # <<>> /\ form.data[1] = owidVersion1) =>
           LET d == ReadString(Tail(form.data))
               t == ReadDateFromUInt32(d.rest)
           IN /\ form.err = "" => (/\ form.out.Signature # NilSlice
                                    /\ Len(form.out.Signature) = signatureLength)
              /\ (d.err = "" /\ t.err = "" /\ Len(t.rest) < signatureLength)
                     => form.err # ""
    /\ (form.op = "UnmarshalDoc" /\ form.err = "") =>
           (/\ form.out.Signature # NilSlice
            /\ Len(form.out.Signature) = signatureLength)

\* C18: FromBuffer reads one version byte; for 0 it succeeds at once, leaves
\* the other bytes in the buffer and fills no field but the version; for 1 it
\* reads the domain, the timestamp and the signature; for every other value
\* it returns an error.
C18_VersionTag ==
    form.op = "FromBuffer" =>
        IF form.data = <<>> THEN form.err # ""
        ELSE /\ form.out.Version = form.data[1]
             /\ form.data[1] = owidEmpty =>
                    /\ form.err = ""
                    /\ form.rest = Tail(form.data)
                    /\ form.out = [form.o EXCEPT !.Version = owidEmpty]
             /\ (form.data[1] = owidVersion1 /\ form.err = "") =>
                    LET n == Len(form.out.Domain)
                        q == SubSeq(form.data, n + 3, n + 6)
                    IN /\ Len(q) = 4
                       /\ form.data = <<owidVersion1>> \o form.out.Domain \o <<0>>
                                           \o q \o form.out.Signature \o form.rest
                       /\ form.out.TimeStamp = GetDateFromMinutes(q)
             /\ form.data[1] \notin {owidEmpty, owidVersion1} => form.err # ""

\* FromBuffer of an OWID filled before has met the empty marker followed by
\* more bytes.
C18_Witness ==
    /\ form.op = "FromBuffer"
    /\ Len(form.data) > 1
    /\ form.data[1] = owidEmpty
    /\ form.o.Domain = <<98>>
    /\ form.out.Domain = <<98>>
    /\ form.rest = Tail(form.data)
    /\ form.err = ""

\* C21: for every signer S and OWID o, S.PublicSigner().Verify(o) and
\* S.Verify(o) return the same boolean and both an error or both none, and
\* where there is no error they tried the same keys in the same order.
C21_PublicPrivateAgree ==
    (vres.via # "none" /\ owid.how = "given") =>
        LET s == heap[vres.sid]
            o == Plain(owid)
            r == IF vres.via = "signer"
                 THEN SignerPublicVerify(PublicSigner(s), o)
                 ELSE SignerVerify(s, o)
        IN /\ vres.ok = r.ok
           /\ (vres.err = "") = (r.err = "")
           /\ vres.err = "" => vres.tried = r.tried

\* The public signer has verified an OWID with the second key it tried.
C21_Witness ==
    /\ vres.via = "public"
    /\ owid.how = "given"
    /\ vres.ok
    /\ Len(vres.tried) = 2
    /\ SignerVerify(heap[vres.sid], Plain(owid)).ok

\* The keys of signer s are in descending order of created and every public
\* key of them can be read.
SortedReadable(s) ==
    /\ \A i \in 1..(Len(s.Keys) - 1) : s.Keys[i].Created > s.Keys[i + 1].Created
    /\ \A i \in 1..Len(s.Keys) : s.Keys[i].PublicKey.pem = "public"

\* C26: with the keys of the signer in descending order of created, when the
\* OWID was signed with keys[0] and that key is eligible, Signer.Verify and
\* SignerPublic.Verify try keys[0] first: no older key is tried before it.
C26_NewestFirst ==
    (vres.via # "none" /\ owid.how = "given") =>
        LET s == heap[vres.sid]
        IN (/\ Len(s.Keys) > 0
            /\ SortedReadable(s)
            /\ EqualFold(s.Domain, owid.Domain)
            /\ owid.Signature = SignatureBytes(s.Keys[1].PrivateKey.id, MarshalOwid(owid.Target).d)
            /\ s.Keys[1].Created <= owid.TimeStamp + Tolerance)
               => (vres.tried # <<>> /\ vres.tried[1] = s.Keys[1].PrivateKey.id)

\* What the check of key i of signer s gives for OWID o: "error" when the
\* verify handle can not be built or the check fails, "match" when the
\* signature is the one of this key, "no match" otherwise.
KeyCheck(s, o, i) ==
    LET p == NewCryptoVerifyOnly(s.Keys[i].PublicKey)
        r == VerifyWithCrypto(o, p.c)
    IN IF p.err # "" \/ r.err # "" THEN "error"
       ELSE IF r.ok THEN "match" ELSE "no match"

\* The indexes of the keys of s that are eligible for OWID o.
EligibleKeys(s, o) ==
    {i \in 1..Len(s.Keys) : s.Keys[i].Created <= o.TimeStamp + Tolerance}

\* The indexes of the eligible keys of s whose check does not give "no match".
DecidingKeys(s, o) ==
    {i \in EligibleKeys(s, o) : KeyCheck(s, o, i) # "no match"}

\* The index in s.Keys of the key pair with id k.
KeyIndex(s, k) == CHOOSE j \in 1..Len(s.Keys) : s.Keys[j].PrivateKey.id = k

\* C27: Signer.Verify goes through the eligible keys in its order (from the
\* last index down); a key that does not match makes it go on; the first key
\* that matches ends it with (true, nil) and the first that gives an error
\* ends it with (false, error), and no key after that one is tried, whatever
\* it would have given; with no such key the result is (false, nil) after
\* every eligible key was tried; a key that is not eligible is never tried.
C27_TrialOutcomes ==
    (vres.via = "signer" /\ owid.how = "given"
        /\ EqualFold(heap[vres.sid].Domain, owid.Domain)) =>
        LET s == heap[vres.sid]
            o == Plain(owid)
            e == EligibleKeys(s, o)
            dk == DecidingKeys(s, o)
            first == CHOOSE i \in dk : \A j \in dk : j <= i
            seen == {KeyIndex(s, vres.tried[j]) : j \in 1..Len(vres.tried)}
        IN /\ seen \subseteq e
           /\ \A a, b \in 1..Len(vres.tried) :
                  a < b => KeyIndex(s, vres.tried[a]) > KeyIndex(s, vres.tried[b])
           /\ dk = {} => (~vres.ok /\ vres.err = "" /\ seen = e)
           /\ dk # {} =>
                /\ {i \in e : i > first} \subseteq seen
                /\ \A i \in seen : i >= first
                /\ KeyCheck(s, o, first) = "match" => (vres.ok /\ vres.err = "")
                /\ KeyCheck(s, o, first) = "error" => (~vres.ok /\ vres.err # "")

\* Signer.Verify went past a key that did not match, then met a key that
\* gave an error and returned it, although one more eligible key of the
\* signer matches the signature.
C27_Witness ==
    /\ vres.via = "signer"
    /\ owid.how = "given"
    /\ ~vres.ok
    /\ vres.err # ""
    /\ Len(vres.tried) >= 1
    /\ \E i \in EligibleKeys(heap[vres.sid], Plain(owid)) :
           KeyCheck(heap[vres.sid], Plain(owid), i) = "match"

\* C19: no JSON made from the signers the store holds has a private key in
\* it: the listing of the signers that HandlerSigners answers with has no
\* privateKey member in any key of any signer.
C19_NoPrivateKeyInJSON ==
    form.op = "HandlerSigners" =>
        \A d \in DOMAIN form.doc :
            \A i \in 1..Len(form.doc[d].keys) :
                "privateKey" \notin DOMAIN form.doc[d].keys[i]

\* C20: PublicSigner() of the signer g that HandlerSigner answers for has
\* the domain, name and termsURL of g and one entry for each key of g, in the
\* order of the keys of g, each with the public key and the created time of
\* that key and nothing else; the JSON document of the answer has the four
\* members domain, name, termsUrl and publicKeys with those values.
C20_PublicSignerProjection ==
    [][\A d \in Domains :
          (HandlerSigner(d) /\ GetSignerHttp(d) # 0) =>
              LET g == heap[GetSignerHttp(d)]
                  p == PublicSigner(g)
                  doc == form'.doc
              IN /\ DOMAIN p = {"Domain", "Name", "TermsURL", "PublicKeys"}
                 /\ p.Domain = g.Domain /\ p.Name = g.Name
                 /\ p.TermsURL = g.TermsURL
                 /\ Len(p.PublicKeys) = Len(g.Keys)
                 /\ \A i \in 1..Len(g.Keys) :
                        p.PublicKeys[i] = [Key |-> g.Keys[i].PublicKey,
                                           Created |-> g.Keys[i].Created]
                 /\ form'.err = ""
                 /\ DOMAIN doc = {"domain", "name", "termsUrl", "publicKeys"}
                 /\ doc.domain = g.Domain /\ doc.name = g.Name
                 /\ doc.termsUrl = g.TermsURL
                 /\ Len(doc.publicKeys) = Len(g.Keys)
                 /\ \A i \in 1..Len(g.Keys) :
                        doc.publicKeys[i] = [key |-> g.Keys[i].PublicKey,
                                             created |-> g.Keys[i].Created]]_vars

\* HandlerSigner has answered for a signer with two keys.
C20_Witness ==
    /\ form.op = "HandlerSigner"
    /\ form.by # 0
    /\ Len(form.doc.publicKeys) = 2
    /\ form.doc.publicKeys[1].key # form.doc.publicKeys[2].key
    /\ form.doc.publicKeys = [i \in 1..2 |->
                                 [key |-> heap[form.by].Keys[i].PublicKey,
                                  created |-> heap[form.by].Keys[i].Created]]

\* The step is the call of HandlerRegister, which leaves its request and
\* its answer in form.
Registering == form.op = "none" /\ form'.op = "HandlerRegister"

\* The registration was accepted: the signer was stored.
Accepted ==
    /\ form'.err = ""
    /\ form'.doc.ReadOnly
    /\ MapGet(mapHeap'[signers'], form'.doc.Domain) # 0

\* C22: for a host that is not registered, a registration is accepted
\* exactly when the name has 5 to 40 characters and the termsURL is a valid
\* absolute URL of at most 250 characters; names of 5 and of 40 characters
\* are accepted, names of 4 and of 41 characters get the name length
\* message and a termsURL of 251 characters the terms length message.
C22_RegistrationBounds ==
    [][LET d == form'.doc.Domain
           name == form'.data
           termsURL == form'.arg
       IN (Registering /\ getSigner(d) = 0) =>
              /\ Accepted <=>
                     (/\ Len(name) >= 5 /\ Len(name) <= 40
                      /\ termsURL.kind = "absolute"
                      /\ termsURL.len <= 250)
              /\ Len(name) \in {4, 41} =>
                     form'.doc.NameError = "Name must be between 5 and 40 characters"
              /\ termsURL.len = 251 =>
                     form'.doc.TermsURLError = "Terms URL maximum length 250"]_vars

\* C23: a registration with a name of fewer than 5 or more than 40
\* characters, with a termsURL of more than 250 characters or one that is
\* not valid, or for a host that is registered, leaves the store with the
\* signers and keys it had.
C23_RejectedRegistrationNoChange ==
    [][LET d == form'.doc.Domain
           name == form'.data
           termsURL == form'.arg
       IN (/\ Registering
           /\ \/ getSigner(d) # 0
              \/ Len(name) < 5 \/ Len(name) > 40
              \/ termsURL.len > 250
              \/ termsURL.kind \in {"other", "empty"}) =>
              /\ UNCHANGED <<heap, mapHeap, signers, nextObj, nextKey>>
              /\ form'.err # "" \/ ~form'.doc.ReadOnly]_vars

\* A registration with a name that is too long was refused while the store
\* held a signer of another host.
C23_Witness ==
    /\ form.op = "HandlerRegister"
    /\ form.err = ""
    /\ form.doc.NameError # ""
    /\ Len(form.doc.Name) = 41
    /\ getSigner(form.doc.Domain) = 0
    /\ DOMAIN mapHeap[signers] # {}

\* C24 as stated: after an accepted registration for host h the signer of h
\* has domain h, the name and the termsURL that were submitted and one key
\* pair with a private and a public key, created not before the request;
\* the signer of no other domain is changed.
C24_RegistrationCreatesOneSigner ==
    [][LET d == form'.doc.Domain
           name == form'.data
           termsURL == form'.arg
       IN (Registering /\ Accepted) =>
              LET g == heap'[MapGet(mapHeap'[signers'], d)]
              IN /\ g.Domain = d /\ g.Name = name /\ g.TermsURL = termsURL
                 /\ Len(g.Keys) = 1
                 /\ g.Keys[1].PrivateKey.pem = "private"
                 /\ g.Keys[1].PublicKey.pem = "public"
                 /\ g.Keys[1].Created >= now
                 /\ \A x \in DOMAIN mapHeap[signers] \ {d} :
                        /\ mapHeap'[signers'][x] = mapHeap[signers][x]
                        /\ heap'[mapHeap[signers][x]] = heap[mapHeap[signers][x]]
                 /\ DOMAIN mapHeap'[signers'] = DOMAIN mapHeap[signers] \cup {d}]_vars

\* C24 amended: the same, with the termsURL as url.ParseRequestURI and
\* String() give it back, the scheme in lower case.
C24_RegistrationCreatesOneSignerParsedURL ==
    [][LET d == form'.doc.Domain
           name == form'.data
           termsURL == form'.arg
       IN (Registering /\ Accepted) =>
              LET g == heap'[MapGet(mapHeap'[signers'], d)]
              IN /\ g.Domain = d /\ g.Name = name
                 /\ g.TermsURL = [termsURL EXCEPT !.upper = FALSE]
                 /\ Len(g.Keys) = 1
                 /\ g.Keys[1].PrivateKey.pem = "private"
                 /\ g.Keys[1].PublicKey.pem = "public"
                 /\ g.Keys[1].Created >= now
                 /\ \A x \in DOMAIN mapHeap[signers] \ {d} :
                        /\ mapHeap'[signers'][x] = mapHeap[signers][x]
                        /\ heap'[mapHeap[signers][x]] = heap[mapHeap[signers][x]]
                 /\ DOMAIN mapHeap'[signers'] = DOMAIN mapHeap[signers] \cup {d}]_vars

\* Host "b" was registered while the store held the signer of "a".
C24_Witness ==
    /\ form.op = "HandlerRegister"
    /\ form.err = ""
    /\ form.doc.ReadOnly
    /\ form.doc.Domain = <<98>>
    /\ getSigner(<<98>>) = form.by
    /\ getSigner(<<97>>) # 0
    /\ Len(heap[form.by].Keys) = 1

\* C25: a request to the add-keys endpoint appends one new key to the signer
\* of the host exactly when the access key is valid and the host has a
\* signer, whose keys are then the keys it had, unchanged, and the new one;
\* otherwise the answer is an error and no signer and no key is added or
\* changed.
C25_AddKeysEndpoint ==
    [][\A d \in Hosts, accessKey \in {"A", "B"} :
          HandlerAddKeys(d, accessKey) =>
              IF accessKey = "A" /\ getSigner(d) # 0
              THEN LET id == getSigner(d)
                       old == heap[id].Keys
                       new == heap'[id].Keys
                   IN /\ form'.err = ""
                      /\ MapGet(mapHeap'[signers'], d) = id
                      /\ Len(new) = Len(old) + 1
                      /\ \A i \in 1..Len(old) : \E j \in 1..Len(new) : new[j] = old[i]
                      /\ \E j \in 1..Len(new) :
                             /\ new[j].PrivateKey.id \notin KeyIds(old)
                             /\ new[j].Created = now
                      /\ [heap' EXCEPT ![id].Keys = old] = heap
                      /\ UNCHANGED <<mapHeap, signers>>
              ELSE /\ form'.err # ""
                   /\ UNCHANGED <<heap, mapHeap, signers>>]_vars

\* The add-keys endpoint has given a signer its second key.
C25_Witness ==
    /\ form.op = "HandlerAddKeys"
    /\ form.err = ""
    /\ form.by # 0
    /\ Len(heap[form.by].Keys) = 2

\* C28: every signer that a reader can obtain from the store has its keys
\* in descending order of created, keys[0] being the key of the greatest
\* created, after addSigner and addKeys too.
C28_SortedKeys ==
    \A d \in DOMAIN GetSigners :
        LET s == heap[GetSigners[d]]
        IN \A i, j \in 1..Len(s.Keys) : i < j => s.Keys[i].Created >= s.Keys[j].Created

\* C29: an OWID that is signed stays signed: a step that marshals it or that
\* verifies it changes none of its fields, and after it was signed again it
\* has a signature, its timestamp is the time of that Sign, and the signer
\* that signed it verifies it.
C29_Lifecycle ==
    [][/\ owid'.how # "none" => owid'.Signature # NilSlice
       /\ (owid.how # "none" /\ form'.op \in {"MarshalBinary", "MarshalJSON"})
              => owid' = owid
       /\ (owid.how # "none" /\ vres'.via # "none") => owid' = owid
       /\ owid'.how = "resign" =>
              /\ owid'.TimeStamp = owid'.at
              /\ SignerVerify(heap'[owid'.by], Plain(owid')).ok]_vars

(***************************************************************************)
(* Properties of the Local store.                                          *)
(***************************************************************************)
\* The key pairs persisted in file content f for domain d.
PersistedKeys(f, d) ==
    IF d \in DOMAIN f.data
    THEN {f.data[d].keys[i].publicKey.id : i \in 1..Len(f.data[d].keys)}
    ELSE {}

\* The step is the return of addSigner called by goroutine t.
AddSignerStep(t) ==
    /\ th'[t].pc = "done"
    /\ \/ th[t].pc = "idle" /\ th'[t].op = "addSigner"
       \/ th[t].pc = "add"

\* The step is an addSigner for a domain the cache holds a signer for.
DuplicateAdd ==
    \E t \in Threads : AddSignerStep(t) /\ th'[t].d \in DOMAIN mapHeap[signers]

\* C5: under every interleaving of addSigner, addKeys and refresh, a key that
\* was once persisted for a domain stays in the persisted data.  Steps that
\* replace a signer the cache holds (C10) are set aside: the keys are lost
\* without them.
C5_KeysNeverLost ==
    [][~DuplicateAdd =>
          \A d \in Domains : PersistedKeys(file, d) \subseteq PersistedKeys(file', d)]_vars

\* C7: while refresh() runs, the map that readers reach through l.signers is
\* never a map that a refresh is still building: it is the map published
\* before, or the new map once complete; each goroutine builds a map of its
\* own.
C7_SnapshotAtomicity ==
    \A t \in Threads :
        th[t].pc \in {"build", "swap"} =>
            /\ th[t].s # signers
            /\ \A u \in Threads \ {t} : th[u].s # th[t].s

\* A reader has looked the domain up and found the signer of the published
\* map while a refresh is building a map that does not hold that signer yet.
C7_Witness ==
    \E t, u \in Threads :
        /\ th[t].pc = "build"
        /\ th[t].todo # {}
        /\ th[u].op = "get"
        /\ th[u].pc = "done"
        /\ th[u].res # 0

\* C8: when loading fails (I/O error, or data that does not decode), refresh
\* returns the error and the cached signers are exactly what they were.
C8_FailedRefreshKeepsCache ==
    [][\A t \in Threads :
          (th[t].pc = "read" /\ th'[t].err # "") =>
              /\ th'[t].pc = "done"
              /\ signers' = signers
              /\ mapHeap'[signers'] = mapHeap[signers]
              /\ heap' = heap]_vars

\* A refresh has failed on undecodable data while the cache holds a signer.
C8_Witness ==
    \E t \in Threads :
        /\ th[t].op = "refresh"
        /\ th[t].pc = "done"
        /\ th[t].err = "invalid character"
        /\ DOMAIN mapHeap[signers] # {}

\* C9: GetSigner calls refresh only when its first lookup finds no signer,
\* and at most once; it then looks the domain up once more and returns what
\* that gives; on a hit there is no refresh and no second lookup; an error
\* of refresh is returned with no signer.
C9_RetryOnceOnMiss ==
    \A t \in Threads :
        th[t].op \in {"get", "register"} =>
            /\ th[t].n <= 1
            /\ th[t].lookups <= 2
            /\ th[t].first = "hit" => (th[t].n = 0 /\ th[t].lookups = 1)
            /\ th[t].first = "miss" => th[t].n = 1
            /\ (th[t].pc = "done" /\ th[t].first = "miss" /\ th[t].err = "")
                   => th[t].lookups = 2
            /\ th[t].err # "" => (th[t].res = 0 /\ th[t].lookups = 1)

\* GetSigner missed, refreshed and found the signer with its second lookup.
C9_Witness ==
    \E t \in Threads :
        /\ th[t].op = "get"
        /\ th[t].pc = "done"
        /\ th[t].first = "miss"
        /\ th[t].lookups = 2
        /\ th[t].res # 0

\* C10: addSigner for a domain the store holds a signer for returns an error
\* and leaves that signer - name, termsURL and keys - as it was.
C10_AddSignerRejectsDuplicates ==
    [][\A t \in Threads :
          (AddSignerStep(t) /\ th'[t].d \in DOMAIN mapHeap[signers]) =>
              /\ th'[t].err # ""
              /\ th'[t].d \in DOMAIN mapHeap'[signers']
              /\ heap'[mapHeap'[signers'][th'[t].d]]
                     = heap[mapHeap[signers][th'[t].d]]]_vars

\* C30: the map a reader got from GetSigners does not change afterwards: as
\* long as it exists, no step of the store changes the set of its domains,
\* the signer it has for a domain or the keys of that signer.
C30_PublishedMapsReadOnly ==
    [][(signers \in DOMAIN mapHeap') =>
          (/\ DOMAIN mapHeap'[signers] = DOMAIN GetSigners
           /\ \A d \in DOMAIN GetSigners :
                  /\ mapHeap'[signers][d] = GetSigners[d]
                  /\ heap'[GetSigners[d]].Keys = heap[GetSigners[d]].Keys)]_vars

====
